---- MODULE Spec2Model ----
(***************************************************************************)
(* A model of the decision engine of pixiu: the LLM gateway (call_llm),    *)
(* the signal-validation log of the learning loop, the knowledge base and  *)
(* its full-text mirror, the sizing loops of generate_recommendation and   *)
(* the asset-allocation targets.  Each subsystem has its own specification *)
(* over its own variables; the other subsystems stay in their idle state.  *)
(***************************************************************************)
EXTENDS Integers, Sequences, FiniteSets, TLC

VARIABLES
    \* ---- LLM gateway (src/agent/llm.py: call_llm)
    llm_pc,            \* "idle" | "try" | "sleep" | "returned" | "raised"
    llm_env,           \* the call's environment: provider, keys, fallback switch
    model,             \* the model asked for (after the default is applied)
    provider_chain,    \* sequence of providers
    chain_idx,         \* position of the for-loop over provider_chain
    current_model,     \* model resolved for provider_chain[chain_idx]
    attempt,           \* the inner loop's attempt number, 0-based
    last_error,        \* NoError or the last classified LLMError
    llm_raised,        \* the LLMError call_llm raised (NoError before)
    raised_by,         \* "none" | "direct" | "nonretryable" | "exhausted" | "noattempt"
    last_attempt,      \* what the last _dispatch was given and how it ended
    n_dispatch,        \* provider -> number of _dispatch calls made
    first_outcome,     \* provider -> outcome of its first _dispatch
    rate_limited,      \* providers that answered with a RATE_LIMIT error
    slept,             \* total seconds passed to time.sleep
    \* ---- learning loop (src/analysis/learner.py, src/memory/database.py)
    today,             \* datetime.now(), as a day number
    fund_nav,          \* table fund_nav: set of rows, key (fund_code, nav_date)
    signal_validation, \* table signal_validation: rows in id order
    strategy_performance, \* table strategy_performance: set of rows, key
                       \* (period_end, strategy_name, regime)
    \* ---- knowledge base (src/agent/reflection.py, src/memory/database.py)
    knowledge_base,    \* table knowledge_base: rows in id order
    knowledge_fts,     \* index knowledge_fts: set of (rowid, content, category)
    fts5,              \* whether this SQLite build has the FTS5 module
    fts_created,       \* whether the virtual table knowledge_fts exists
    kb_op,             \* the last knowledge-base operation and its input
    \* ---- asset allocation (src/risk/asset_allocation.py)
    alloc_in,          \* the arguments of get_target_allocation
    alloc_out,         \* NULL or the allocation it returned
    \* ---- advisory list (src/report/recommendation.py)
    rec_pc,            \* "idle" | "skipped" | "hold_report" | "done"
    rec_in,            \* what generate_recommendation read: account, market, lists
    recommendations,   \* the advisory list it assembled
    \* ---- composite fuser (src/strategy/portfolio.py, src/analysis/signal_guard.py)
    fuse_in,           \* what the strategies do on the market data, and their weights
    fuse_runs,         \* the runs of generate_composite_signals so far, in order
    \* ---- budgeted prompt (src/agent/budget.py)
    prompt_in,         \* the arguments of build_prompt
    prompt_out,        \* NULL or the parts build_prompt joined and their text
    \* ---- strategy registry (src/strategy/registry.py)
    _REGISTRY,         \* name -> (class, default weight)
    reg_op,            \* the last decoration: class, weight, what it raised
    n_registrations,   \* decorations so far
    \* ---- command line (src/main.py: main)
    cli_pc,            \* "idle" | "cmd_func" | "exited"
    cli_args,          \* sys.argv[1:]
    cli_printed,       \* "nothing" | "usage" | "unknown command" | "traceback"
    exit_status,       \* NULL or the exit status of the process
    \* ---- data fallback (src/data/fallback.py: fetch_with_fallback)
    fb_pc,             \* "idle" | "api" | "db" | "default" | "returned" | "raised"
    fb_in,             \* what api_fn, db_fn and default_fn do, and ttl_hours
    fb_tried,          \* the tiers tried so far, in order
    fb_result,         \* NULL or the DataResult returned
    \* ---- daily routine (src/main.py: cmd_daily)
    daily_pc,          \* "idle" | "learn" | "performance" | "update" |
                       \* "signals" | "done"
    daily_runs,        \* runs of cmd_daily started so far
    daily_emitted,     \* the composite signals of the last run
    \* ---- knowledge base writes, commit by commit (src/agent/reflection.py)
    kbw_pc,            \* writer -> "idle" | "inserted" (base row committed,
                       \* mirror row not yet)
    kbw_line,          \* writer -> the line it is storing
    kbw_seen,          \* what the last read of both tables returned
    \* ---- enrichment stage (src/strategy/portfolio.py)
    enrich_pc,         \* "idle" | "enriching" | "strategies"
    enrich_tasks,      \* key -> what its task does
    enrich_now,        \* seconds since the tasks were submitted
    enrich_yielded,    \* the keys whose future as_completed has yielded
    \* ---- trade-entry sessions (src/bot/session.py)
    _sessions,         \* user_id -> NoSession or the user's TradeSession
    sess_now,          \* time.time(), in seconds
    sess_reply         \* the last call on the SessionManager and its result

llm_vars == <<llm_pc, llm_env, model, provider_chain, chain_idx, current_model,
              attempt, last_error, llm_raised, raised_by, last_attempt,
              n_dispatch, first_outcome, rate_limited, slept>>

val_vars == <<today, fund_nav, signal_validation, strategy_performance>>

kb_vars == <<knowledge_base, knowledge_fts, fts5, fts_created, kb_op>>

alloc_vars == <<alloc_in, alloc_out>>

rec_vars == <<rec_pc, rec_in, recommendations>>

fuse_vars == <<fuse_in, fuse_runs>>

prompt_vars == <<prompt_in, prompt_out>>

reg_vars == <<_REGISTRY, reg_op, n_registrations>>

cli_vars == <<cli_pc, cli_args, cli_printed, exit_status>>

fb_vars == <<fb_pc, fb_in, fb_tried, fb_result>>

daily_vars == <<daily_pc, daily_runs, daily_emitted>>

kbw_vars == <<kbw_pc, kbw_line, kbw_seen>>

enrich_vars == <<enrich_pc, enrich_tasks, enrich_now, enrich_yielded>>

sess_vars == <<_sessions, sess_now, sess_reply>>

vars == <<llm_vars, val_vars, kb_vars, alloc_vars, rec_vars, fuse_vars,
          prompt_vars, reg_vars, cli_vars, fb_vars, daily_vars, kbw_vars,
          enrich_vars, sess_vars>>

\* what an action of one subsystem leaves alone
llm_rest == <<val_vars, kb_vars, alloc_vars, rec_vars, fuse_vars,
              prompt_vars, reg_vars, cli_vars, fb_vars, daily_vars, kbw_vars,
              enrich_vars, sess_vars>>
val_rest == <<llm_vars, kb_vars, alloc_vars, rec_vars, fuse_vars,
              prompt_vars, reg_vars, cli_vars, fb_vars, daily_vars, kbw_vars,
              enrich_vars, sess_vars>>
kb_rest == <<llm_vars, val_vars, alloc_vars, rec_vars, fuse_vars,
             prompt_vars, reg_vars, cli_vars, fb_vars, daily_vars, kbw_vars,
             enrich_vars, sess_vars>>
alloc_rest == <<llm_vars, val_vars, kb_vars, rec_vars, fuse_vars,
                prompt_vars, reg_vars, cli_vars, fb_vars, daily_vars,
                kbw_vars, enrich_vars, sess_vars>>
rec_rest == <<llm_vars, val_vars, kb_vars, alloc_vars, fuse_vars,
              prompt_vars, reg_vars, cli_vars, fb_vars, daily_vars, kbw_vars,
              enrich_vars, sess_vars>>
fuse_rest == <<llm_vars, val_vars, kb_vars, alloc_vars, rec_vars,
               prompt_vars, reg_vars, cli_vars, fb_vars, daily_vars,
               kbw_vars, enrich_vars, sess_vars>>
prompt_rest == <<llm_vars, val_vars, kb_vars, alloc_vars, rec_vars,
                 fuse_vars, reg_vars, cli_vars, fb_vars, daily_vars,
                 kbw_vars, enrich_vars, sess_vars>>
reg_rest == <<llm_vars, val_vars, kb_vars, alloc_vars, rec_vars, fuse_vars,
              prompt_vars, cli_vars, fb_vars, daily_vars, kbw_vars,
              enrich_vars, sess_vars>>
cli_rest == <<llm_vars, val_vars, kb_vars, alloc_vars, rec_vars, fuse_vars,
              prompt_vars, reg_vars, fb_vars, daily_vars, kbw_vars,
              enrich_vars, sess_vars>>
fb_rest == <<llm_vars, val_vars, kb_vars, alloc_vars, rec_vars, fuse_vars,
             prompt_vars, reg_vars, cli_vars, daily_vars, kbw_vars,
             enrich_vars, sess_vars>>
daily_rest == <<llm_vars, kb_vars, alloc_vars, rec_vars, fuse_vars,
                prompt_vars, reg_vars, cli_vars, fb_vars, kbw_vars,
                enrich_vars, sess_vars>>
kbw_rest == <<llm_vars, val_vars, alloc_vars, rec_vars, fuse_vars,
              prompt_vars, reg_vars, cli_vars, fb_vars, daily_vars,
              enrich_vars, sess_vars>>
enrich_rest == <<llm_vars, val_vars, kb_vars, alloc_vars, rec_vars,
                 fuse_vars, prompt_vars, reg_vars, cli_vars, fb_vars,
                 daily_vars, kbw_vars, sess_vars>>
sess_rest == <<llm_vars, val_vars, kb_vars, alloc_vars, rec_vars, fuse_vars,
               prompt_vars, reg_vars, cli_vars, fb_vars, daily_vars,
               kbw_vars, enrich_vars>>

(***************************************************************************)
(* LLM gateway                                                             *)
(***************************************************************************)

Providers == {"gemini", "anthropic"}

None == "None"

\* CONFIG["llm"][provider] : the three model tiers of each backend
LLMConfig ==
    [gemini    |-> [analysis_model |-> "gemini-2.0-flash",
                    decision_model |-> "gemini-2.5-pro",
                    critical_model |-> "gemini-2.5-pro"],
     anthropic |-> [analysis_model |-> "claude-haiku-4-5-20251001",
                    decision_model |-> "claude-sonnet-4-6",
                    critical_model |-> "claude-opus-4-6"]]

max_retries == 3
retry_backoff_base == 2
retry_backoff_max == 8

\* ErrorCategory
Categories == {"rate_limit", "auth", "billing", "timeout", "format",
               "context_overflow", "network", "unknown"}

_NON_RETRYABLE == {"auth", "billing"}

NoError == [category |-> None, provider |-> None, model |-> None]

LLMError(category, provider, m) ==
    [category |-> category, provider |-> provider, model |-> m]

\* every category taken as retryable
is_retryable_always(error) == TRUE

is_retryable(error) == error.category \notin _NON_RETRYABLE

\* An exception raised by a backend SDK: whether it has a status_code
\* attribute and its value, the status code readable in its message, the
\* name of its type, and the keywords its message contains.
Exc(has_attr, attr_status, msg_status, exc_type, msg) ==
    [has_attr |-> has_attr, attr_status |-> attr_status,
     msg_status |-> msg_status, exc_type |-> exc_type, msg |-> msg]

ExcInputs ==
    { Exc(TRUE,  429, 429, "RateLimitError", {"rate", "limit"}),
      Exc(TRUE,  401, 401, "AuthenticationError", {"unauthorized"}),
      Exc(FALSE, 0, 403, "ClientError", {"permission"}),
      Exc(TRUE,  402, 402, "APIStatusError", {}),
      Exc(FALSE, 0, 0, "APITimeoutError", {}),
      Exc(FALSE, 0, 0, "JSONDecodeError", {}),
      Exc(FALSE, 0, 0, "ClientError", {"quota"}),
      Exc(FALSE, 0, 0, "ValueError", {"api key"}),
      Exc(FALSE, 0, 0, "ValueError", {"context", "too long"}),
      Exc(FALSE, 0, 0, "ConnectionError", {"connection", "reset"}),
      Exc(TRUE,  503, 503, "APIStatusError", {}),
      Exc(TRUE,  0, 500, "APIStatusError", {}),
      Exc(FALSE, 0, 0, "RuntimeError", {}) }

\* status 0 stands for None: no status code
_extract_status_code(exc) ==
    IF exc.has_attr THEN exc.attr_status ELSE exc.msg_status

TypeHas(exc_type, word) ==
    CASE word = "timeout" -> exc_type \in {"APITimeoutError", "TimeoutError"}
      [] word = "json"    -> exc_type \in {"JSONDecodeError"}
      [] OTHER            -> FALSE

\* str(exc) of these SDK errors names neither "timeout" nor "json" unless
\* the keyword set says so
_categorize(exc, status_code) ==
    IF status_code = 429 THEN "rate_limit"
    ELSE IF status_code = 401 \/ status_code = 403 THEN "auth"
    ELSE IF status_code = 402 THEN "billing"
    ELSE IF TypeHas(exc.exc_type, "timeout") \/ "timeout" \in exc.msg THEN "timeout"
    ELSE IF TypeHas(exc.exc_type, "json") \/ "json" \in exc.msg THEN "format"
    ELSE IF exc.exc_type = "AuthenticationError" THEN "auth"
    ELSE IF exc.exc_type = "RateLimitError" THEN "rate_limit"
    ELSE IF "rate" \in exc.msg /\ "limit" \in exc.msg THEN "rate_limit"
    ELSE IF "quota" \in exc.msg \/ "resource_exhausted" \in exc.msg THEN "rate_limit"
    ELSE IF "api key" \in exc.msg \/ "permission" \in exc.msg
            \/ "unauthorized" \in exc.msg THEN "auth"
    ELSE IF "context" \in exc.msg
            /\ ("length" \in exc.msg \/ "overflow" \in exc.msg \/ "too long" \in exc.msg)
         THEN "context_overflow"
    ELSE IF exc.msg \cap {"connection", "network", "dns", "refused", "reset"} # {}
         THEN "network"
    ELSE IF status_code # 0 /\ 500 <= status_code /\ status_code < 600 THEN "network"
    ELSE "unknown"

classify(exc, provider, m) ==
    LLMError(_categorize(exc, _extract_status_code(exc)), provider, m)

_get_fallback_provider(primary, keys) ==
    LET fallback == IF primary = "gemini" THEN "anthropic" ELSE "gemini"
    IN  IF keys[fallback] THEN fallback ELSE None

_resolve_model_for_provider(m, target_provider, original_provider) ==
    IF target_provider = original_provider THEN m
    ELSE LET target_config == LLMConfig[target_provider]
             original_config == LLMConfig[original_provider]
         IN  IF m = original_config.analysis_model THEN target_config.analysis_model
             ELSE IF m = original_config.critical_model THEN target_config.critical_model
             ELSE IF m = original_config.decision_model THEN target_config.decision_model
             ELSE target_config.decision_model

get_decision_model(provider) == LLMConfig[provider].decision_model

\* the models a caller passes: None, a tier of the current provider, or a
\* name no tier has
ModelInputs(provider) ==
    {None, LLMConfig[provider].analysis_model, LLMConfig[provider].decision_model,
     LLMConfig[provider].critical_model, "custom-model"}

Pow(b, e) == IF e = 0 THEN 1 ELSE IF e = 1 THEN b ELSE IF e = 2 THEN b * b ELSE b * b * b

Min(a, b) == IF a < b THEN a ELSE b
Max(a, b) == IF a > b THEN a ELSE b

LLMIdle ==
    /\ llm_pc = "idle"
    /\ llm_env = [primary |-> None, keys |-> [p \in Providers |-> FALSE],
                  enable_fallback |-> FALSE]
    /\ model = None
    /\ provider_chain = <<>>
    /\ chain_idx = 0
    /\ current_model = None
    /\ attempt = 0
    /\ last_error = NoError
    /\ llm_raised = NoError
    /\ raised_by = "none"
    /\ last_attempt = [provider |-> None, model |-> None, outcome |-> None]
    /\ n_dispatch = [p \in Providers |-> 0]
    /\ first_outcome = [p \in Providers |-> None]
    /\ rate_limited = {}
    /\ slept = 0

\* call_llm, up to the first iteration of the provider loop
CallLLM(primary, m, keys, enable_fallback) ==
    /\ llm_pc = "idle"
    /\ llm_env' = [primary |-> primary, keys |-> keys,
                   enable_fallback |-> enable_fallback]
    /\ model' = IF m = None THEN get_decision_model(primary) ELSE m
    /\ provider_chain' =
          IF enable_fallback /\ _get_fallback_provider(primary, keys) # None
          THEN <<primary, _get_fallback_provider(primary, keys)>>
          ELSE <<primary>>
    /\ chain_idx' = 1
    /\ current_model' = _resolve_model_for_provider(model', primary, primary)
    /\ attempt' = 0
    /\ llm_pc' = "try"
    /\ UNCHANGED <<last_error, llm_raised, raised_by, last_attempt, n_dispatch,
                   first_outcome, rate_limited, slept>>

\* the for-loop over provider_chain moves on, or the loops are over
NextProviderOrRaise(err) ==
    IF chain_idx < Len(provider_chain)
    THEN /\ chain_idx' = chain_idx + 1
         /\ current_model' = _resolve_model_for_provider(
                model, provider_chain[chain_idx + 1], llm_env.primary)
         /\ attempt' = 0
         /\ llm_pc' = "try"
         /\ UNCHANGED <<llm_raised, raised_by>>
    ELSE /\ llm_pc' = "raised"
         /\ IF err # NoError
            THEN llm_raised' = err /\ raised_by' = "exhausted"
            ELSE /\ llm_raised' = LLMError("unknown", llm_env.primary, model)
                 /\ raised_by' = "noattempt"
         /\ UNCHANGED <<chain_idx, current_model, attempt>>

Note(provider, outcome) ==
    /\ n_dispatch' = [n_dispatch EXCEPT ![provider] = @ + 1]
    /\ first_outcome' = IF n_dispatch[provider] = 0
                        THEN [first_outcome EXCEPT ![provider] = outcome]
                        ELSE first_outcome
    /\ last_attempt' = [provider |-> provider, model |-> current_model,
                        outcome |-> outcome]
    /\ rate_limited' = IF outcome = "rate_limit"
                       THEN rate_limited \cup {provider} ELSE rate_limited

\* _dispatch returns: call_llm returns its result
DispatchOk ==
    /\ UNCHANGED llm_rest
    /\ llm_pc = "try"
    /\ LET provider == provider_chain[chain_idx]
       IN  /\ llm_env.keys[provider]
           /\ Note(provider, "ok")
    /\ llm_pc' = "returned"
    /\ UNCHANGED <<llm_env, model, provider_chain, chain_idx, current_model, attempt,
                   last_error, llm_raised, raised_by, slept>>

\* _call_gemini / _call_anthropic find no API key and raise an LLMError,
\* which call_llm re-raises as it is
DispatchNoKey ==
    /\ UNCHANGED llm_rest
    /\ llm_pc = "try"
    /\ LET provider == provider_chain[chain_idx]
       IN  /\ ~llm_env.keys[provider]
           /\ Note(provider, "auth")
           /\ llm_raised' = LLMError("auth", provider, current_model)
    /\ raised_by' = "direct"
    /\ llm_pc' = "raised"
    /\ UNCHANGED <<llm_env, model, provider_chain, chain_idx, current_model, attempt,
                   last_error, slept>>

\* "last_error = error" with the first error kept instead
RecordErrorKeepFirst(error) == IF last_error = NoError THEN error ELSE last_error

\* last_error = error
RecordError(error) == error

\* a rate limit handled like any other retryable error
BreaksNever(error) == FALSE

\* if error.category == ErrorCategory.RATE_LIMIT: break
BreaksToNextProvider(error) == error.category = "rate_limit"

\* the handler of "except Exception as exc" for one failed _dispatch
HandleException(exc) ==
    LET provider == provider_chain[chain_idx]
        error == classify(exc, provider, current_model)
    IN  /\ Note(provider, error.category)
        /\ last_error' = RecordError(error)
        /\ IF ~is_retryable(error)
           THEN /\ llm_raised' = error
                /\ raised_by' = "nonretryable"
                /\ llm_pc' = "raised"
                /\ UNCHANGED <<chain_idx, current_model, attempt>>
           ELSE IF BreaksToNextProvider(error)
           THEN NextProviderOrRaise(last_error')
           ELSE /\ llm_pc' = "sleep"
                /\ UNCHANGED <<chain_idx, current_model, attempt, llm_raised,
                               raised_by>>
        /\ UNCHANGED <<llm_env, model, provider_chain, slept>>

\* _dispatch raises an exception of the SDK
DispatchFails ==
    /\ UNCHANGED llm_rest
    /\ llm_pc = "try"
    /\ llm_env.keys[provider_chain[chain_idx]]
    /\ \E exc \in ExcInputs : HandleException(exc)

\* range(max_retries) taken one too far
InRangeInclusive(i) == i <= max_retries

\* for attempt in range(max_retries)
InRange(i) == i < max_retries

\* time.sleep(delay), then the next iteration of the attempt loop
Backoff ==
    /\ UNCHANGED llm_rest
    /\ llm_pc = "sleep"
    /\ slept' = slept + Min(Pow(retry_backoff_base, attempt), retry_backoff_max)
    /\ IF InRange(attempt + 1)
       THEN /\ attempt' = attempt + 1
            /\ llm_pc' = "try"
            /\ UNCHANGED <<chain_idx, current_model, llm_raised, raised_by>>
       ELSE NextProviderOrRaise(last_error)
    /\ UNCHANGED <<llm_env, model, provider_chain, last_error, last_attempt,
                   n_dispatch, first_outcome, rate_limited>>

StartCall ==
    /\ UNCHANGED llm_rest
    /\ \E primary \in Providers, keys \in [Providers -> BOOLEAN],
       enable_fallback \in BOOLEAN :
        \E m \in ModelInputs(primary) : CallLLM(primary, m, keys, enable_fallback)

LLMNext ==
    \/ StartCall
    \/ DispatchOk
    \/ DispatchNoKey
    \/ DispatchFails
    \/ Backoff


(***************************************************************************)
(* Learning loop: the signal-validation log                                *)
(***************************************************************************)

MaxDay == 30
MaxRows == 4
MaxNavRows == 2

\* calendar days by which the clock moves between two operations
DaySteps == {7, 30}

Funds == {"110020"}
NavInputs == {100, 102}              \* unit NAV in hundredths
SignalTypes == {"buy", "sell"}
ConfidenceInputs == {70}             \* confidence in hundredths
RegimeInputs == {"ranging"}

\* SQL NULL, and a value of a nullable column
NULL == <<>>
Some(v) == <<v>>

\* the "[name] ..." lines of a composite signal's reason, by their names
ReasonInputs == {<<"trend_following">>}

Signal(fund_code, signal_type, confidence, reason) ==
    [fund_code |-> fund_code, signal_type |-> signal_type,
     confidence |-> confidence, reason |-> reason]

\* the lists generate_composite_signals returns: one signal per fund
SignalLists ==
    { <<Signal(f, t, c, r)>> :
        f \in Funds, t \in SignalTypes, c \in ConfidenceInputs, r \in ReasonInputs }

ValIdle ==
    /\ today = 0
    /\ fund_nav = {}
    /\ signal_validation = <<>>
    /\ strategy_performance = {}

\* n / d rounded to the nearest integer, d > 0
RoundDiv(n, d) == IF n >= 0 THEN (2 * n + d) \div (2 * d)
                  ELSE -((2 * (-n) + d) \div (2 * d))

NavRowsOf(fund_code) == {r \in fund_nav : r.fund_code = fund_code}

\* the row of the set with the greatest nav_date
LatestRow(rows) == CHOOSE r \in rows : \A q \in rows : q.nav_date <= r.nav_date

\* get_fund_nav_history(fund_code)[-1]["nav"], 0 without history
LatestNav(fund_code) ==
    IF NavRowsOf(fund_code) = {} THEN 0 ELSE LatestRow(NavRowsOf(fund_code)).nav

\* the row INSERT INTO signal_validation adds, id by AUTOINCREMENT
NewRow(id, signal_date, fund_code, strategy_name, signal_type, confidence, regime, nav_at_signal) ==
    [id |-> id, signal_date |-> signal_date, fund_code |-> fund_code,
     strategy_name |-> strategy_name, signal_type |-> signal_type,
     confidence |-> confidence, regime |-> regime, nav_at_signal |-> nav_at_signal,
     nav_after_7d |-> NULL, nav_after_30d |-> NULL,
     return_7d |-> NULL, return_30d |-> NULL,
     is_correct_7d |-> NULL, is_correct_30d |-> NULL, validated_at |-> NULL]

\* record_signal: a plain INSERT
record_signal(log, signal_date, fund_code, strategy_name, signal_type, confidence, regime, nav_at_signal) ==
    Append(log, NewRow(Len(log) + 1, signal_date, fund_code, strategy_name,
                       signal_type, confidence, regime, nav_at_signal))

\* the inner loop of record_signals_from_composite over the reason's lines
RECURSIVE RecordLines(_, _, _, _, _)
RecordLines(log, sig, lines, regime, nav) ==
    IF lines = <<>> THEN log
    ELSE RecordLines(
            record_signal(log, today, sig.fund_code, Head(lines),
                          sig.signal_type, sig.confidence, regime, nav),
            sig, Tail(lines), regime, nav)

\* the loop of record_signals_from_composite over the signals
RECURSIVE RecordAll(_, _, _)
RecordAll(log, signals, regime) ==
    IF signals = <<>> THEN log
    ELSE LET sig == Head(signals)
             nav == LatestNav(sig.fund_code)
             withComposite == record_signal(log, today, sig.fund_code, "composite",
                                  sig.signal_type, sig.confidence, regime, nav)
         IN  RecordAll(RecordLines(withComposite, sig, sig.reason, regime, nav),
                       Tail(signals), regime)

record_signals_from_composite(signals, regime) ==
    /\ Len(signal_validation) + Len(RecordAll(<<>>, signals, regime)) <= MaxRows
    /\ signal_validation' = RecordAll(signal_validation, signals, regime)
    /\ UNCHANGED <<today, fund_nav, strategy_performance>>

\* _get_nav_after: NULL when no row answers either query
_get_nav_after(fund_code, signal_date, days) ==
    LET target_date == signal_date + days
        within == {r \in NavRowsOf(fund_code) :
                      r.nav_date >= signal_date /\ r.nav_date <= target_date}
        later == {r \in NavRowsOf(fund_code) : r.nav_date > signal_date}
    IN  IF within # {} THEN Some(LatestRow(within).nav)
        ELSE IF later # {} THEN Some(LatestRow(later).nav)
        ELSE NULL

\* _check_direction on return = (nav_now - nav_at) / nav_at * 100, nav_at > 0;
\* the hurdle is 1.65 at 7 days and 0 at 30 days
_check_direction(signal_type, nav_now, nav_at, days) ==
    LET is_buy == signal_type \in {"strong_buy", "buy"}
        is_sell == signal_type \in {"strong_sell", "sell"}
        above_hurdle == IF days = 7
                        THEN (nav_now - nav_at) * 10000 > 165 * nav_at
                        ELSE nav_now - nav_at > 0
        below_zero == nav_now - nav_at < 0
    IN  IF is_buy /\ above_hurdle THEN 1
        ELSE IF is_sell /\ below_zero THEN 1
        ELSE 0

\* the is_correct parameter, left NULL for a flat return
CorrectCellFlatNull(signal_type, nav_now, nav_at, days) ==
    IF nav_now = nav_at THEN NULL
    ELSE Some(_check_direction(signal_type, nav_now, nav_at, days))

\* is_correct = _check_direction(...), as the UPDATE's parameter
CorrectCell(signal_type, nav_now, nav_at, days) ==
    Some(_check_direction(signal_type, nav_now, nav_at, days))

\* round(return, 4), in units of 0.0001 percent
ReturnPct(nav_now, nav_at) == RoundDiv((nav_now - nav_at) * 1000000, nav_at)

\* the body of the 7-day loop for one row; pending as the query selected it
Validate7(row, pending) ==
    LET nav_now == _get_nav_after(row.fund_code, row.signal_date, 7)
    IN  IF ~pending \/ nav_now = NULL \/ row.nav_at_signal <= 0 THEN row
        ELSE [row EXCEPT
                !.nav_after_7d = nav_now,
                !.return_7d = Some(ReturnPct(nav_now[1], row.nav_at_signal)),
                !.is_correct_7d = CorrectCell(row.signal_type, nav_now[1],
                                             row.nav_at_signal, 7),
                !.validated_at = Some(today)]

Validate30(row, pending) ==
    LET nav_now == _get_nav_after(row.fund_code, row.signal_date, 30)
    IN  IF ~pending \/ nav_now = NULL \/ row.nav_at_signal <= 0 THEN row
        ELSE [row EXCEPT
                !.nav_after_30d = nav_now,
                !.return_30d = Some(ReturnPct(nav_now[1], row.nav_at_signal)),
                !.is_correct_30d = CorrectCell(row.signal_type, nav_now[1],
                                              row.nav_at_signal, 30),
                !.validated_at = Some(today)]

\* a pending query that leaves out "nav_after_Nd IS NULL"
Pending7Any(row) == row.signal_date <= today - 7

\* WHERE nav_after_7d IS NULL AND signal_date <= cutoff_7d
Pending7(row) == row.nav_after_7d = NULL /\ row.signal_date <= today - 7

\* WHERE nav_after_30d IS NULL AND signal_date <= cutoff_30d
Pending30(row) == row.nav_after_30d = NULL /\ row.signal_date <= today - 30

\* the log after both queries and the two loops of validate_pending_signals
ValidatedLog ==
    [i \in 1..Len(signal_validation) |->
        LET row == signal_validation[i]
        IN  Validate30(Validate7(row, Pending7(row)), Pending30(row))]

validate_pending_signals ==
    /\ UNCHANGED val_rest
    /\ signal_validation' = ValidatedLog
    /\ UNCHANGED <<today, fund_nav, strategy_performance>>

\* upsert_fund_nav with one record: INSERT OR REPLACE on (fund_code, nav_date)
upsert_fund_nav(fund_code, nav_date, nav) ==
    LET kept == {r \in fund_nav : ~(r.fund_code = fund_code /\ r.nav_date = nav_date)}
    IN  /\ Cardinality(kept) < MaxNavRows
        /\ fund_nav' = kept \cup {[fund_code |-> fund_code, nav_date |-> nav_date,
                                   nav |-> nav]}
        /\ UNCHANGED <<today, signal_validation, strategy_performance>>

RecordSignals ==
    /\ UNCHANGED val_rest
    /\ \E signals \in SignalLists, regime \in RegimeInputs :
        record_signals_from_composite(signals, regime)

\* the fetcher stores today's NAV or rewrites a stored day
UpsertNav ==
    /\ UNCHANGED val_rest
    /\ \E f \in Funds, nav \in NavInputs :
        \E d \in {today} \cup {r.nav_date : r \in NavRowsOf(f)} :
            upsert_fund_nav(f, d, nav)

AdvanceDay ==
    /\ UNCHANGED val_rest
    /\ \E d \in DaySteps : today + d <= MaxDay /\ today' = today + d
    /\ UNCHANGED <<fund_nav, signal_validation, strategy_performance>>

ValNext ==
    \/ RecordSignals
    \/ validate_pending_signals
    \/ UpsertNav
    \/ AdvanceDay


\* ---- strategy performance over the validated signals

MaxPerfRows == 2

\* the window of update_strategy_performance, in days
PerfWindow == 90

\* a row of the log after both validations found the one NAV stored since
\* the signal, nav_now
Judged(row, nav_now) ==
    [row EXCEPT
        !.nav_after_7d = Some(nav_now),
        !.return_7d = Some(ReturnPct(nav_now, row.nav_at_signal)),
        !.is_correct_7d = CorrectCell(row.signal_type, nav_now, row.nav_at_signal, 7),
        !.nav_after_30d = Some(nav_now),
        !.return_30d = Some(ReturnPct(nav_now, row.nav_at_signal)),
        !.is_correct_30d = CorrectCell(row.signal_type, nav_now, row.nav_at_signal, 30),
        !.validated_at = Some(row.signal_date + 30)]

\* rows of one fund recorded at NAV 1.00 in a ranging market: before and
\* inside the window, not yet judged or judged on a NAV of 0.97, 1.00, 1.04
PerfRowChoices(id) ==
    LET fresh == { NewRow(id, d, "110020", n, t, c, "ranging", 100) :
                      d \in {5, 60}, n \in {"composite", "trend_following"},
                      t \in SignalTypes, c \in {50, 70} }
    IN  fresh \cup { Judged(r, nav) : r \in fresh, nav \in {97, 100, 104} }

RECURSIVE PerfLogsOfLen(_)
PerfLogsOfLen(n) ==
    IF n = 0 THEN {<<>>}
    ELSE { Append(log, r) : log \in PerfLogsOfLen(n - 1), r \in PerfRowChoices(n) }

\* the logs of up to max_rows rows
PerfLogsUpTo(max_rows) == UNION { PerfLogsOfLen(n) : n \in 1..max_rows }

\* SUM of a column, given as a function of the row id, over the rows ids
RECURSIVE SumOver(_, _)
SumOver(col, ids) ==
    IF ids = {} THEN 0
    ELSE LET i == CHOOSE j \in ids : TRUE
         IN  col[i] + SumOver(col, ids \ {i})

\* the columns of the log the aggregate queries read
IsCorrect30 ==
    [i \in 1..Len(signal_validation) |->
        IF signal_validation[i].is_correct_30d = Some(1) THEN 1 ELSE 0]
Return30 ==
    [i \in 1..Len(signal_validation) |->
        IF signal_validation[i].return_30d = NULL THEN 0
        ELSE signal_validation[i].return_30d[1]]
Confidence == [i \in 1..Len(signal_validation) |-> signal_validation[i].confidence]

\* WHERE signal_date >= cutoff AND is_correct_30d IS NOT NULL, one group
GroupIds(strategy_name, regime, cutoff) ==
    { i \in 1..Len(signal_validation) :
        /\ signal_validation[i].strategy_name = strategy_name
        /\ signal_validation[i].regime = regime
        /\ signal_validation[i].signal_date >= cutoff
        /\ signal_validation[i].is_correct_30d # NULL }

\* AVG(CASE WHEN is_correct_30d = 1 THEN 1.0 ELSE 0.0 END) over ids as the
\* pair <<correct, count>>; "if rate else 0" makes the empty average 0 / 1
RateOf(ids) ==
    IF ids = {} THEN <<0, 1>>
    ELSE <<SumOver(IsCorrect30, ids), Cardinality(ids)>>

\* max(0.1, min(1.0, win_rate * 1.5)) as the fraction <<n, d>>
ClampedWeight(correct, total) ==
    <<Max(total, Min(10 * total, 15 * correct)), 10 * total>>

\* the weight, halved when the average return is below -2 percent
\* (returns in units of 0.0001 percent), rounded to 0.0001
recommended_weight(correct, total, return_sum) ==
    LET w == ClampedWeight(correct, total)
    IN  IF return_sum < (-20000) * total
        THEN RoundDiv(w[1] * 10000, 2 * w[2])
        ELSE RoundDiv(w[1] * 10000, w[2])

\* the row written for one group of the aggregate query; ratios in 0.0001
PerformanceRow(strategy_name, regime, cutoff) ==
    LET ids == GroupIds(strategy_name, regime, cutoff)
        total == Cardinality(ids)
        correct == SumOver(IsCorrect30, ids)
        return_sum == SumOver(Return30, ids)
        high == RateOf({i \in ids : signal_validation[i].confidence >= 60})
        low == RateOf({i \in ids : signal_validation[i].confidence < 60})
    IN  [period_start |-> cutoff, period_end |-> today,
         strategy_name |-> strategy_name, regime |-> regime,
         total_signals |-> total, correct_signals |-> correct,
         win_rate |-> RoundDiv(correct * 10000, total),
         avg_return |-> RoundDiv(return_sum, total),
         avg_confidence |-> RoundDiv(SumOver(Confidence, ids) * 100, total),
         confidence_accuracy |->
             RoundDiv((high[1] * low[2] - low[1] * high[2]) * 10000, high[2] * low[2]),
         recommended_weight |-> recommended_weight(correct, total, return_sum)]

\* GROUP BY strategy_name, regime: the groups with at least one row
PerfGroups(cutoff) ==
    { <<signal_validation[i].strategy_name, signal_validation[i].regime>> :
        i \in { j \in 1..Len(signal_validation) :
                  /\ signal_validation[j].signal_date >= cutoff
                  /\ signal_validation[j].is_correct_30d # NULL } }

\* INSERT OR REPLACE on UNIQUE(period_end, strategy_name, regime), per group
UpdatedPerformance ==
    LET cutoff == today - PerfWindow
        written == { PerformanceRow(g[1], g[2], cutoff) : g \in PerfGroups(cutoff) }
        kept == { r \in strategy_performance :
                    ~\E w \in written : /\ w.period_end = r.period_end
                                        /\ w.strategy_name = r.strategy_name
                                        /\ w.regime = r.regime }
    IN  kept \cup written

update_strategy_performance ==
    /\ UNCHANGED val_rest
    /\ strategy_performance' = UpdatedPerformance
    /\ UNCHANGED <<today, fund_nav, signal_validation>>

PerfNext ==
    \/ update_strategy_performance


(***************************************************************************)
(* Knowledge base and its full-text mirror                                 *)
(***************************************************************************)

MaxValidated == 2

\* the texts a reflection emits as lessons or strategy suggestions
Contents == {"lesson_a", "lesson_b"}

\* result.lessons and result.strategy_suggestions
LessonLists == {<<>>} \cup {<<c>> : c \in Contents}
                      \cup {<<c, d>> : c \in Contents, d \in Contents}
SuggestionLists == {<<>>} \cup {<<c>> : c \in Contents}

NoOp == [op |-> "none", lessons |-> <<>>, suggestions |-> <<>>]

KBIdle ==
    /\ knowledge_base = <<>>
    /\ knowledge_fts = {}
    /\ fts5 = TRUE
    /\ fts_created = FALSE
    /\ kb_op = NoOp

\* SELECT last_insert_rowid() through execute_query: a connection opened for
\* this one query, on which no INSERT has run
last_insert_rowid == 0

FtsEntry(rowid, content, category) ==
    [rowid |-> rowid, content |-> content, category |-> category]

\* _migrate_knowledge_fts: create the virtual table, index every base row
\* (the SELECT has no WHERE clause); without FTS5 the exception is swallowed
_migrate_knowledge_fts ==
    IF fts5
    THEN /\ fts_created' = TRUE
         /\ knowledge_fts' = knowledge_fts \cup
               {FtsEntry(knowledge_base[i].id, knowledge_base[i].content,
                         knowledge_base[i].category) :
                   i \in 1..Len(knowledge_base)}
    ELSE UNCHANGED <<fts_created, knowledge_fts>>

\* _sync_fts on a store [kb, fts]; without the table the exception is swallowed
_sync_fts(store, content, category) ==
    IF fts_created
    THEN [store EXCEPT !.fts = @ \cup {FtsEntry(last_insert_rowid, content, category)}]
    ELSE store

\* SELECT id FROM knowledge_base WHERE content = ? AND is_active = 1
Existing(kb, content) ==
    {i \in 1..Len(kb) : kb[i].content = content /\ kb[i].is_active = 1}

\* existing[0]: the first row the scan in id order meets
FirstOf(ids) == CHOOSE i \in ids : \A j \in ids : i <= j

\* INSERT INTO knowledge_base (category, content, ...), id by AUTOINCREMENT
InsertKnowledge(store, category, content) ==
    [store EXCEPT !.kb = Append(@, [id |-> Len(@) + 1, category |-> category,
                                    content |-> content, times_validated |-> 0,
                                    is_active |-> 1])]

\* UPDATE knowledge_base SET times_validated = times_validated + 1 WHERE id = ?
Validate(store, i) ==
    [store EXCEPT !.kb[i].times_validated = @ + 1]

\* the body of the loop over result.lessons
LessonStep(store, lesson) ==
    IF Existing(store.kb, lesson) # {}
    THEN Validate(store, FirstOf(Existing(store.kb, lesson)))
    ELSE _sync_fts(InsertKnowledge(store, "strategy_lesson", lesson),
                   lesson, "strategy_lesson")

\* the body of the loop over result.strategy_suggestions
SuggestionStep(store, suggestion) ==
    IF Existing(store.kb, suggestion) = {}
    THEN _sync_fts(InsertKnowledge(store, "risk_insight", suggestion),
                   suggestion, "risk_insight")
    ELSE store

RECURSIVE LessonsLoop(_, _)
LessonsLoop(store, lessons) ==
    IF lessons = <<>> THEN store
    ELSE LessonsLoop(LessonStep(store, Head(lessons)), Tail(lessons))

RECURSIVE SuggestionsLoop(_, _)
SuggestionsLoop(store, suggestions) ==
    IF suggestions = <<>> THEN store
    ELSE SuggestionsLoop(SuggestionStep(store, Head(suggestions)), Tail(suggestions))

_update_knowledge_base(lessons, suggestions) ==
    LET before == [kb |-> knowledge_base, fts |-> knowledge_fts]
        after == SuggestionsLoop(LessonsLoop(before, lessons), suggestions)
    IN  /\ \A i \in 1..Len(after.kb) : after.kb[i].times_validated <= MaxValidated
        /\ knowledge_base' = after.kb
        /\ knowledge_fts' = after.fts
        /\ kb_op' = [op |-> "update", lessons |-> lessons, suggestions |-> suggestions]
        /\ UNCHANGED <<fts5, fts_created>>

\* init_db, run at the start of every command
init_db ==
    /\ UNCHANGED kb_rest
    /\ _migrate_knowledge_fts
    /\ kb_op' = [op |-> "init_db", lessons |-> <<>>, suggestions |-> <<>>]
    /\ UNCHANGED <<knowledge_base, fts5>>

\* a reflection stores its lessons and suggestions
UpdateKnowledge ==
    /\ UNCHANGED kb_rest
    /\ \E lessons \in LessonLists, suggestions \in SuggestionLists :
          _update_knowledge_base(lessons, suggestions)

KBNext ==
    \/ init_db
    \/ UpdateKnowledge


(***************************************************************************)
(* Asset allocation targets; shares in thousandths                         *)
(***************************************************************************)

Regimes == {"bull_strong", "bull_weak", "ranging", "bear_weak", "bear_strong"}

\* the five regimes and a label that is none of them
RegimeLabels == Regimes \cup {"unknown"}

\* pe_percentile: every bucket of the table, its edges and the values off it
PeInputs == 0..100

Allocation(equity, bond, cash) == [equity |-> equity, bond |-> bond, cash |-> cash]

HARD_LIMITS == [equity_max |-> 700, cash_min |-> 200, bond_min |-> 100]

REGIME_ALLOCATIONS ==
    [bull_strong |-> Allocation(600, 150, 250),
     bull_weak   |-> Allocation(550, 200, 250),
     ranging     |-> Allocation(450, 250, 300),
     bear_weak   |-> Allocation(350, 300, 350),
     bear_strong |-> Allocation(250, 350, 400)]

\* a table whose lowest bucket moves a tenth from bond to equity
VALUATION_ADJUSTMENTS_from_bond ==
    { [low |-> 0,  high |-> 20,  delta |-> Allocation(100, -100, 0)],
      [low |-> 80, high |-> 100, delta |-> Allocation(-100, 50, 50)] }

VALUATION_ADJUSTMENTS ==
    { [low |-> 0,  high |-> 20,  delta |-> Allocation(100, -50, -50)],
      [low |-> 20, high |-> 30,  delta |-> Allocation(50, -30, -20)],
      [low |-> 70, high |-> 80,  delta |-> Allocation(-50, 30, 20)],
      [low |-> 80, high |-> 100, delta |-> Allocation(-100, 50, 50)] }

\* the deltas of the bucket holding pe_percentile, none outside the buckets
ValuationDelta(pe_percentile) ==
    LET hit == {b \in VALUATION_ADJUSTMENTS :
                   b.low <= pe_percentile /\ pe_percentile < b.high}
    IN  IF hit = {} THEN Allocation(0, 0, 0) ELSE (CHOOSE b \in hit : TRUE).delta

\* base after the valuation deltas and the hard limits
Limited(regime, pe_percentile) ==
    LET base == IF regime \in Regimes THEN REGIME_ALLOCATIONS[regime]
                ELSE REGIME_ALLOCATIONS["ranging"]
        d == ValuationDelta(pe_percentile)
    IN  Allocation(Min(base.equity + d.equity, HARD_LIMITS.equity_max),
                   Max(base.bond + d.bond, HARD_LIMITS.bond_min),
                   Max(base.cash + d.cash, HARD_LIMITS.cash_min))

\* "total != 1.0": the shares do not add up to 1, or their sum in binary
\* floating point is not 1.0 (inexact_sum; 0.35 + 0.3 + 0.35 is one such sum)
Renormalizes(regime, pe_percentile, inexact_sum) ==
    LET l == Limited(regime, pe_percentile)
    IN  l.equity + l.bond + l.cash # 1000 \/ inexact_sum

get_target_allocation(regime, pe_percentile, inexact_sum) ==
    LET l == Limited(regime, pe_percentile)
        total == l.equity + l.bond + l.cash
        equity == RoundDiv(l.equity * 1000, total)
        bond == RoundDiv(l.bond * 1000, total)
    IN  IF Renormalizes(regime, pe_percentile, inexact_sum)
        THEN Allocation(equity, bond, 1000 - equity - bond)
        ELSE l

AllocInputs ==
    [regime : RegimeLabels, pe_percentile : PeInputs, inexact_sum : BOOLEAN]

AllocIdle ==
    /\ alloc_in = [regime |-> "ranging", pe_percentile |-> 50, inexact_sum |-> FALSE]
    /\ alloc_out = NULL

\* one call of get_target_allocation on the drawn arguments
PlanAllocation ==
    /\ UNCHANGED alloc_rest
    /\ alloc_out = NULL
    /\ alloc_out' = Some(get_target_allocation(alloc_in.regime, alloc_in.pe_percentile,
                                               alloc_in.inexact_sum))
    /\ UNCHANGED alloc_in

AllocNext ==
    \/ PlanAllocation


(***************************************************************************)
(* Advisory list of generate_recommendation; money in fen (0.01 RMB),      *)
(* confidence and the sizing multipliers in hundredths or tenths           *)
(***************************************************************************)

\* the longest list of composite signals; the quant loop reads signals[:5]
MaxSignals == 6

max_single_position_pct == 30
min_cash_reserve_pct == 10

Yuan(n) == n * 100

Holding(fund_code, value, is_bond) ==
    [fund_code |-> fund_code, value |-> value, is_bond |-> is_bond]

\* the latest cash snapshot and the rows of portfolio with status 'holding'
AccountInputs ==
    { [cash |-> Yuan(10000), holdings |-> <<>>],
      [cash |-> Yuan(20000), holdings |-> <<Holding("217022", Yuan(80000), TRUE)>>],
      [cash |-> Yuan(20000),
       holdings |-> <<Holding("110020", Yuan(50000), FALSE),
                      Holding("217022", Yuan(30000), TRUE)>>],
      [cash |-> Yuan(500), holdings |-> <<Holding("110020", Yuan(9500), FALSE)>>] }

\* position_multiplier of get_valuation_signal, in tenths
PositionMultipliers == {15, 10, 3}

\* the funds whose average correlation with the holdings is above 0.8
CorrelatedInputs == {{}, {"161725"}}

RECURSIVE SumValues(_, _)
SumValues(holdings, bonds_too) ==
    IF holdings = <<>> THEN 0
    ELSE (IF Head(holdings).is_bond /\ ~bonds_too THEN 0 ELSE Head(holdings).value)
         + SumValues(Tail(holdings), bonds_too)

\* total_invested, and equity_value of get_current_allocation
total_invested(account) == SumValues(account.holdings, TRUE)
equity_value(account) == SumValues(account.holdings, FALSE)

RECURSIVE Codes(_)
Codes(holdings) ==
    IF holdings = <<>> THEN <<>>
    ELSE <<Head(holdings).fund_code>> \o Codes(Tail(holdings))

\* what the handler reads of the account and the market
RecEnv(account, regime, position_multiplier, correlated) ==
    [cash |-> account.cash, holdings |-> account.holdings,
     total_value |-> account.cash + total_invested(account),
     equity_value |-> equity_value(account),
     regime |-> regime, position_multiplier |-> position_multiplier,
     correlated |-> correlated]

RecEnvs ==
    { RecEnv(a, r, v, c) : a \in AccountInputs, r \in RegimeLabels,
                           v \in PositionMultipliers, c \in CorrelatedInputs }

\* a * n / d to the nearest fen, a >= 0, in pieces that fit 32 bits
MulDiv(a, n, d) == (a \div d) * n + RoundDiv((a % d) * n, d)

\* a * p / 10^8 to the nearest fen, in pieces that fit 32 bits
MulPct8(a, p) ==
    LET ah == a \div 10000
        al == a % 10000
        ph == p \div 10000
        pl == p % 10000
        l == al * pl
        q == ah * pl + al * ph + (l \div 10000)
        whole == ah * ph + (q \div 10000)
        rest == (q % 10000) * 10000 + (l % 10000)
    IN  IF rest >= 50000000 THEN whole + 1 ELSE whole

regime_multipliers ==
    [bull_strong |-> 90, bull_weak |-> 70, ranging |-> 50,
     bear_weak |-> 35, bear_strong |-> 20]

base_pct(regime) == IF regime \in Regimes THEN regime_multipliers[regime] ELSE 50

\* the factor for a portfolio that already has positions, in tenths
PositionFactor(existing_positions) ==
    IF existing_positions >= 3 THEN 5
    ELSE IF existing_positions >= 2 THEN 7
    ELSE 10

\* get_correlation_penalty, in hundredths
get_correlation_penalty(e, fund_code, existing_holdings) ==
    IF existing_holdings = <<>> THEN 100
    ELSE IF fund_code \in e.correlated THEN 30
    ELSE 100

\* get_max_equity_amount at the default pe_percentile
get_max_equity_amount(e, total_value, regime) ==
    LET target == get_target_allocation(regime, 50, FALSE)
        max_equity_pct == Min(target.equity + 50, HARD_LIMITS.equity_max)
    IN  Max(0, MulDiv(total_value, max_equity_pct, 1000) - e.equity_value)

calculate_position_size(e, total_capital, current_cash, confidence, regime, existing_positions, fund_code, existing_holdings) ==
    LET min_cash == MulDiv(total_capital, min_cash_reserve_pct, 100)
        available == Max(0, current_cash - min_cash)
        corr_multiplier ==
            IF fund_code # "" /\ existing_holdings # <<>>
            THEN get_correlation_penalty(e, fund_code, existing_holdings)
            ELSE 100
        \* in units of 10^-8
        position_pct == base_pct(regime) * confidence
                        * PositionFactor(existing_positions)
                        * e.position_multiplier * corr_multiplier
        max_single == Min(MulDiv(total_capital, max_single_position_pct, 100),
                          get_max_equity_amount(e, total_capital, regime))
        amount == Min(MulPct8(available, position_pct), max_single)
    IN  IF available <= 0 THEN 0
        ELSE IF amount < Yuan(100) THEN 0
        ELSE amount

\* one entry of the advisory list
Rec(fund_code, action_label, amount) ==
    [fund_code |-> fund_code, action_label |-> action_label, amount |-> amount]

\* the state of a sizing loop before its first iteration
LoopStart(e) ==
    [remaining_cash |-> e.cash, batch_positions |-> Len(e.holdings),
     batch_holdings |-> Codes(e.holdings), recs |-> <<>>]

\* a buy of amount entered in the list, the batch advanced when amount > 0
Bought(st, fund_code, amount) ==
    IF amount > 0
    THEN [remaining_cash |-> st.remaining_cash - amount,
          batch_positions |-> st.batch_positions + 1,
          batch_holdings |-> Append(st.batch_holdings, fund_code),
          recs |-> Append(st.recs, Rec(fund_code, "buy", amount))]
    ELSE [st EXCEPT !.recs = Append(@, Rec(fund_code, "buy", amount))]

\* the sell branch: the value of the first holding of the fund
Sold(e, st, fund_code) ==
    LET held == {i \in 1..Len(e.holdings) : e.holdings[i].fund_code = fund_code}
    IN  IF held # {}
        THEN [st EXCEPT !.recs = Append(@, Rec(fund_code, "sell",
                                               e.holdings[FirstOf(held)].value))]
        ELSE [st EXCEPT !.recs = Append(@, Rec(fund_code, "watch_not_held", 0))]

\* the body of the loop over llm_decision["recommendations"]
LLMStep(e, st, llm_rec) ==
    IF llm_rec.action = "buy"
    THEN LET sized == IF llm_rec.amount <= 0
                      THEN calculate_position_size(e, e.total_value, st.remaining_cash,
                               llm_rec.confidence, e.regime, st.batch_positions,
                               llm_rec.fund_code, st.batch_holdings)
                      ELSE llm_rec.amount
             amount == Min(sized, MulDiv(st.remaining_cash, 9, 10))
         IN  Bought(st, llm_rec.fund_code, amount)
    ELSE IF llm_rec.action = "sell" THEN Sold(e, st, llm_rec.fund_code)
    ELSE IF llm_rec.action = "watch"
         THEN [st EXCEPT !.recs = Append(@, Rec(llm_rec.fund_code, "watch", 0))]
    ELSE [st EXCEPT !.recs = Append(@, Rec(llm_rec.fund_code, "hold", 0))]

RECURSIVE LLMLoop(_, _, _)
LLMLoop(e, st, llm_recs) ==
    IF llm_recs = <<>> THEN st
    ELSE LLMLoop(e, LLMStep(e, st, Head(llm_recs)), Tail(llm_recs))

is_buy(sig) == sig.signal_type \in {"strong_buy", "buy"}
is_sell(sig) == sig.signal_type \in {"strong_sell", "sell"}

\* the body of the loop over signals[:5]
QuantStep(e, st, sig) ==
    IF is_buy(sig)
    THEN Bought(st, sig.fund_code,
                calculate_position_size(e, e.total_value, st.remaining_cash,
                    sig.confidence, e.regime, st.batch_positions,
                    sig.fund_code, st.batch_holdings))
    ELSE IF is_sell(sig) THEN Sold(e, st, sig.fund_code)
    ELSE [st EXCEPT !.recs = Append(@, Rec(sig.fund_code, "hold", 0))]

RECURSIVE QuantLoop(_, _, _)
QuantLoop(e, st, signals) ==
    IF signals = <<>> THEN st
    ELSE QuantLoop(e, QuantStep(e, st, Head(signals)), Tail(signals))

\* the buys of amount 0 are dropped from the quant list
RECURSIVE DropEmptyBuys(_)
DropEmptyBuys(recs) ==
    IF recs = <<>> THEN <<>>
    ELSE (IF Head(recs).amount > 0 \/ Head(recs).action_label # "buy"
          THEN <<Head(recs)>> ELSE <<>>) \o DropEmptyBuys(Tail(recs))

FirstFive(signals) == SubSeq(signals, 1, Min(5, Len(signals)))

\* ---- the lists the handler is given

QuantFunds == <<"110020", "161725", "000216", "005827", "001938", "012414", "163406">>

CompositeSignal(fund_code, signal_type, confidence) ==
    [fund_code |-> fund_code, signal_type |-> signal_type, confidence |-> confidence]

\* n buy signals of one confidence, on n funds
BuyRun(n, confidence) ==
    [i \in 1..n |-> CompositeSignal(QuantFunds[i], "buy", confidence)]

SignalChoices(fund_code) ==
    { CompositeSignal(fund_code, t, c) :
        t \in {"strong_buy", "sell", "hold"}, c \in {60, 95} }

\* generate_composite_signals after the seasonal correction, never empty here
CompositeLists ==
    { BuyRun(n, c) : n \in 1..MaxSignals, c \in {60, 95} }
    \cup { <<a, b>> : a \in SignalChoices("110020"), b \in SignalChoices("161725") }

LLMRec(fund_code, action, amount, confidence) ==
    [fund_code |-> fund_code, action |-> action, amount |-> amount,
     confidence |-> confidence]

LLMRecChoices(fund_code) ==
    { LLMRec(fund_code, "buy", a, c) :
        a \in {0, Yuan(2000), Yuan(50000)}, c \in {60, 95} }
    \cup { LLMRec(fund_code, x, 0, 50) : x \in {"sell", "watch", "hold"} }

\* llm_decision["recommendations"], not empty
LLMRecLists ==
    { <<a>> : a \in LLMRecChoices("110020") }
    \cup { <<a, b>> : a \in LLMRecChoices("110020"), b \in LLMRecChoices("161725") }

RecInput(path, e, signals, llm_recs) ==
    [path |-> path, env |-> e, signals |-> signals, llm_recs |-> llm_recs]

NoRecInput ==
    RecInput("none", RecEnv([cash |-> 0, holdings |-> <<>>], "ranging", 10, {}),
             <<>>, <<>>)

RecIdle ==
    /\ rec_pc = "idle"
    /\ rec_in = NoRecInput
    /\ recommendations = <<>>

\* a weekend or a market holiday: the handler returns before any analysis
SkipNonTradingDay ==
    /\ UNCHANGED rec_rest
    /\ rec_pc = "idle"
    /\ rec_pc' = "skipped"
    /\ UNCHANGED <<rec_in, recommendations>>

\* no composite signal, for want of NAV history or because no strategy
\* gave a fund a net score: the HOLD report, without an advisory list
HoldReport ==
    /\ UNCHANGED rec_rest
    /\ rec_pc = "idle"
    /\ \E regime \in RegimeLabels, path \in {"hold_no_nav", "hold_no_signal"} :
          rec_in' = RecInput(path, RecEnv([cash |-> 0, holdings |-> <<>>],
                                          regime, 10, {}), <<>>, <<>>)
    /\ rec_pc' = "hold_report"
    /\ UNCHANGED recommendations

\* the LLM answered with recommendations: the LLM-enhanced list
LLMEnhanced ==
    /\ UNCHANGED rec_rest
    /\ rec_pc = "idle"
    /\ \E e \in RecEnvs, llm_recs \in LLMRecLists :
          /\ rec_in' = RecInput("llm", e, BuyRun(1, 60), llm_recs)
          /\ recommendations' = LLMLoop(e, LoopStart(e), llm_recs).recs
    /\ rec_pc' = "done"

\* no LLM decision, or one without recommendations: the quant-only list
QuantOnly ==
    /\ UNCHANGED rec_rest
    /\ rec_pc = "idle"
    /\ \E e \in RecEnvs, signals \in CompositeLists :
          /\ rec_in' = RecInput("quant", e, signals, <<>>)
          /\ recommendations' =
                DropEmptyBuys(QuantLoop(e, LoopStart(e), FirstFive(signals)).recs)
    /\ rec_pc' = "done"

RecNext ==
    \/ SkipNonTradingDay
    \/ HoldReport
    \/ LLMEnhanced
    \/ QuantOnly


(***************************************************************************)
(* Composite signal fuser and signal guard; strategy confidences and       *)
(* weights in tenths, scores and composite confidences in hundredths       *)
(***************************************************************************)

\* how many times generate_composite_signals runs on one store
MaxRuns == 2

Strategies == {"trend_following", "mean_reversion", "momentum"}

StrategySignal(fund_code, signal_type, confidence, strategy_name) ==
    [fund_code |-> fund_code, signal_type |-> signal_type,
     confidence |-> confidence, strategy_name |-> strategy_name]

\* what generate_signals of one strategy does: raises, or returns a list
Raises == [raises |-> TRUE, signals |-> <<>>]
Returns(signals) == [raises |-> FALSE, signals |-> signals]

StrategyOutcomes(s) ==
    {Raises, Returns(<<>>)} \cup
    CASE s = "trend_following" ->
            { Returns(<<StrategySignal("110020", "buy", 9, s)>>),
              Returns(<<StrategySignal("161725", "strong_buy", 9, s)>>) }
      [] s = "mean_reversion" ->
            { Returns(<<StrategySignal("110020", "buy", 9, s)>>),
              Returns(<<StrategySignal("110020", "sell", 6, s)>>) }
      [] s = "momentum" ->
            { Returns(<<StrategySignal("110020", "buy", 4, s),
                        StrategySignal("161725", "strong_buy", 9, s)>>) }

\* strategy_weights.get(name, default_weight)
WeightInputs ==
    { [trend_following |-> 3, mean_reversion |-> 3, momentum |-> 3],
      [trend_following |-> 10, mean_reversion |-> 3, momentum |-> 0] }

FuseInput(fund_data, outcomes, weights) ==
    [fund_data |-> fund_data, outcomes |-> outcomes, weights |-> weights]

OutcomeVectors ==
    { o \in [Strategies -> UNION {StrategyOutcomes(s) : s \in Strategies}] :
        \A s \in Strategies : o[s] \in StrategyOutcomes(s) }

NoFundData ==
    FuseInput(FALSE, [s \in Strategies |-> Returns(<<>>)],
              [trend_following |-> 3, mean_reversion |-> 3, momentum |-> 3])

FuseInputs ==
    { FuseInput(TRUE, o, w) : o \in OutcomeVectors, w \in WeightInputs } \cup {NoFundData}

FuseIdle == fuse_in = NoFundData /\ fuse_runs = <<>>

\* the orders in which the strategy tasks can complete
CompletionOrders ==
    { o \in [1..Cardinality(Strategies) -> Strategies] :
        \A i, j \in 1..Cardinality(Strategies) : i # j => o[i] # o[j] }

\* _run_strategy without its except clause: the exception stays in the task
\* and future.result() raises it
_run_strategy_unguarded(outcome) ==
    [raised |-> outcome.raises, signals |-> outcome.signals]

\* _run_strategy: an exception of generate_signals becomes an empty list
_run_strategy(outcome) ==
    [raised |-> FALSE, signals |-> IF outcome.raises THEN <<>> ELSE outcome.signals]

RECURSIVE Weighted(_, _)
Weighted(signals, weight) ==
    IF signals = <<>> THEN <<>>
    ELSE <<[sig |-> Head(signals), weight |-> weight]>> \o Weighted(Tail(signals), weight)

\* the (sig, weight) pairs in the order the loop over as_completed appends them
RECURSIVE Collected(_, _, _)
Collected(order, outcomes, weights) ==
    IF order = <<>> THEN <<>>
    ELSE Weighted(_run_strategy(outcomes[Head(order)]).signals, weights[Head(order)])
         \o Collected(Tail(order), outcomes, weights)

\* the keys of fund_signals in insertion order
RECURSIVE FundsInOrder(_, _)
FundsInOrder(pairs, seen) ==
    IF pairs = <<>> THEN <<>>
    ELSE LET f == Head(pairs).sig.fund_code
         IN  IF f \in seen THEN FundsInOrder(Tail(pairs), seen)
             ELSE <<f>> \o FundsInOrder(Tail(pairs), seen \cup {f})

RECURSIVE BucketOf(_, _)
BucketOf(pairs, fund_code) ==
    IF pairs = <<>> THEN <<>>
    ELSE (IF Head(pairs).sig.fund_code = fund_code THEN <<Head(pairs)>> ELSE <<>>)
         \o BucketOf(Tail(pairs), fund_code)

\* one line of a composite reason
ReasonLine(tag, buy_strategies, sell_strategies) ==
    [tag |-> tag, buy_strategies |-> buy_strategies, sell_strategies |-> sell_strategies]

NoScores ==
    [buy_score |-> 0, sell_score |-> 0, buy_strategies |-> <<>>,
     sell_strategies |-> <<>>, reasons |-> <<>>]

\* the loop over weighted_signals of one fund
RECURSIVE Scores(_, _)
Scores(weighted_signals, acc) ==
    IF weighted_signals = <<>> THEN acc
    ELSE LET sig == Head(weighted_signals).sig
             weight == Head(weighted_signals).weight
             line == ReasonLine(sig.strategy_name, <<>>, <<>>)
         IN  Scores(Tail(weighted_signals),
                IF is_buy(sig)
                THEN [acc EXCEPT !.buy_score = @ + sig.confidence * weight,
                                 !.buy_strategies = Append(@, sig.strategy_name),
                                 !.reasons = Append(@, line)]
                ELSE IF is_sell(sig)
                THEN [acc EXCEPT !.sell_score = @ + sig.confidence * weight,
                                 !.sell_strategies = Append(@, sig.strategy_name),
                                 !.reasons = Append(@, line)]
                ELSE acc)

\* min(confidence, 0.95) left out
Clamped_unclamped(n, d) == RoundDiv(n * 100, d)

\* round(min(confidence, 0.95), 2) of the confidence n / d
Clamped(n, d) == Min(RoundDiv(n * 100, d), 95)

\* the composite signals of one fund: none or one
CompositeOf(fund_code, weighted_signals) ==
    LET s == Scores(weighted_signals, NoScores)
        net == s.buy_score - s.sell_score
        total == s.buy_score + s.sell_score
        abs_net == IF net < 0 THEN -net ELSE net
        t == Max(total, 1)
        has_conflict == s.buy_strategies # <<>> /\ s.sell_strategies # <<>>
        \* confidence = n / d, after the conflict dampening when there is one
        n == IF has_conflict THEN abs_net * (2 * t - Min(s.buy_score, s.sell_score))
             ELSE abs_net
        d == IF has_conflict THEN 2 * t * t ELSE t
        reasons == IF has_conflict
                   THEN Append(s.reasons,
                               ReasonLine("conflict", s.buy_strategies, s.sell_strategies))
                   ELSE s.reasons
        signal_type == IF net > 20 THEN (IF net > 50 THEN "strong_buy" ELSE "buy")
                       ELSE IF net < -20
                            THEN (IF net < -50 THEN "strong_sell" ELSE "sell")
                       ELSE "hold"
    IN  IF total < 10 \/ signal_type = "hold" THEN <<>>
        ELSE << [fund_code |-> fund_code, signal_type |-> signal_type,
                 confidence |-> Clamped(n, d), reason |-> reasons,
                 strategy_name |-> "composite", priority |-> abs_net] >>

RECURSIVE CompositeAll(_, _)
CompositeAll(funds, pairs) ==
    IF funds = <<>> THEN <<>>
    ELSE CompositeOf(Head(funds), BucketOf(pairs, Head(funds)))
         \o CompositeAll(Tail(funds), pairs)

\* list.sort(key = priority, reverse = True): stable, equal keys keep their order
RECURSIVE InsertByPriority(_, _)
InsertByPriority(sorted, sig) ==
    IF sorted = <<>> THEN <<sig>>
    ELSE IF Head(sorted).priority >= sig.priority
         THEN <<Head(sorted)>> \o InsertByPriority(Tail(sorted), sig)
         ELSE <<sig>> \o sorted

RECURSIVE SortByPriority(_)
SortByPriority(signals) ==
    IF signals = <<>> THEN <<>>
    ELSE InsertByPriority(SortByPriority(SubSeq(signals, 1, Len(signals) - 1)),
                          signals[Len(signals)])


\* lookback_days of check_signal_health and the LIMIT of its query
lookback_days == 90
GuardLimit == 10

SignalHealth(penalty_factor, suppressed) ==
    [penalty_factor |-> penalty_factor, suppressed |-> suppressed]

\* the rows the query of check_signal_health selects, in log order
GuardRows(log, fund_code, now) ==
    SelectSeq(log, LAMBDA r : /\ r.fund_code = fund_code
                             /\ r.strategy_name = "composite"
                             /\ r.signal_date >= now - lookback_days)

\* ORDER BY signal_date DESC; rows of one date come in the order SQLite
\* happens to produce, here the later row first
RECURSIVE ByDateDesc(_)
ByDateDesc(rows) ==
    IF rows = <<>> THEN <<>>
    ELSE LET i == CHOOSE i \in 1..Len(rows) :
                    /\ \A j \in 1..Len(rows) : rows[j].signal_date <= rows[i].signal_date
                    /\ \A j \in (i + 1)..Len(rows) : rows[j].signal_date < rows[i].signal_date
         IN  <<rows[i]>> \o ByDateDesc(SubSeq(rows, 1, i - 1) \o SubSeq(rows, i + 1, Len(rows)))

Direction(r) == IF r.signal_type \in {"strong_buy", "buy"} THEN "buy" ELSE "sell"

\* the loop of anti-pattern 1: wrong rows of one direction counted from the
\* most recent record on, up to the first row that is anything else
RECURSIVE ConsecutiveWrong(_, _)
ConsecutiveWrong(records, last_direction) ==
    IF records = <<>> THEN 0
    ELSE IF /\ Head(records).is_correct_30d = Some(0)
            /\ (last_direction = NULL \/ Some(Direction(Head(records))) = last_direction)
         THEN 1 + ConsecutiveWrong(Tail(records), Some(Direction(Head(records))))
         ELSE 0

Alternating(validated) ==
    Cardinality({ i \in 2..Len(validated) :
                    Direction(validated[i]) # Direction(validated[i - 1]) })

CountRows(rows, cell) == Cardinality({ i \in 1..Len(rows) : rows[i].is_correct_30d = cell })

check_signal_health(log, fund_code, now) ==
    LET all == ByDateDesc(GuardRows(log, fund_code, now))
        records == SubSeq(all, 1, Min(Len(all), GuardLimit))
        consecutive_wrong == ConsecutiveWrong(records, NULL)
        validated == SelectSeq(records, LAMBDA r : r.is_correct_30d # NULL)
        high_conf == SelectSeq(validated, LAMBDA r : r.confidence >= 60)
    IN  IF Len(records) < 3 THEN SignalHealth(10, FALSE)
        ELSE IF consecutive_wrong >= 3 THEN SignalHealth(3, consecutive_wrong >= 5)
        ELSE IF /\ Len(validated) >= 4
                /\ 10 * Alternating(validated) >= 7 * Len(validated)
                /\ 10 * CountRows(validated, Some(0)) >= 6 * Len(validated)
             THEN SignalHealth(5, FALSE)
        ELSE IF /\ Len(high_conf) >= 3
                /\ 10 * CountRows(high_conf, Some(1)) < 4 * Len(high_conf)
             THEN SignalHealth(6, FALSE)
        ELSE SignalHealth(10, FALSE)

RECURSIVE apply_signal_guard(_, _, _)
apply_signal_guard(signals, log, now) ==
    IF signals = <<>> THEN <<>>
    ELSE LET sig == Head(signals)
             health == check_signal_health(log, sig.fund_code, now)
             rest == apply_signal_guard(Tail(signals), log, now)
         IN  IF health.suppressed THEN rest
             ELSE IF health.penalty_factor < 10
                  THEN <<[sig EXCEPT
                            !.confidence = RoundDiv(sig.confidence * health.penalty_factor, 10),
                            !.reason = Append(@, ReasonLine("signal_guard", <<>>, <<>>))]>>
                       \o rest
                  ELSE <<sig>> \o rest

\* composite of the collected signals, sorted, before the guard
Fused(order, outcomes, weights) ==
    LET pairs == Collected(order, outcomes, weights)
    IN  SortByPriority(CompositeAll(FundsInOrder(pairs, {}), pairs))

FuseRun(order, raised, signals) == [order |-> order, raised |-> raised, signals |-> signals]

\* generate_composite_signals, the strategy tasks completing in the given order
generate_composite_signals(input, order, log, now) ==
    IF ~input.fund_data THEN FuseRun(order, FALSE, <<>>)
    ELSE IF \E s \in Strategies : _run_strategy(input.outcomes[s]).raised
         THEN FuseRun(order, TRUE, <<>>)
         ELSE FuseRun(order, FALSE,
                      apply_signal_guard(Fused(order, input.outcomes, input.weights), log, now))

\* validation logs of fund 110020 by their rows, oldest first: W a wrong buy,
\* S a wrong sell, P a buy not yet judged, L a wrong buy of
\* confidence 0.50
GuardRow(id, kind, signal_date) ==
    LET row(t, c) == NewRow(id, signal_date, "110020", "composite", t, c, "ranging", 100)
    IN  CASE kind = "W" -> Judged(row("buy", 70), 97)
          [] kind = "S" -> Judged(row("sell", 70), 104)
          [] kind = "L" -> Judged(row("buy", 50), 97)
          [] kind = "P" -> row("buy", 70)

GuardTemplates ==
    { <<>>,
      <<"W", "W", "W", "W">>,
      <<"W", "W", "W", "W", "W">>,
      <<"S", "S", "S", "S", "S">>,
      <<"W", "W", "W", "W", "W", "P">>,
      <<"L", "L", "L", "L", "L", "P">>,
      <<"W", "S", "W", "S">> }

\* rows ten days apart, the last one at the given date
GuardLog(template, last_date) ==
    [i \in 1..Len(template) |->
        GuardRow(i, template[i], last_date - 10 * (Len(template) - i))]

\* logs whose judged rows are at least 30 days old, and one whose oldest
\* rows are older than the lookback
GuardLogs ==
    { GuardLog(t, IF t # <<>> /\ t[Len(t)] = "P" THEN 75 ELSE 65) : t \in GuardTemplates }
    \cup { GuardLog(<<"W", "W", "W", "W", "W">>, 35) }

\* one run of the fuser
Compose(order) ==
    /\ Len(fuse_runs) < MaxRuns
    /\ fuse_runs' = Append(fuse_runs,
                           generate_composite_signals(fuse_in, order, signal_validation, today))
    /\ UNCHANGED fuse_in
    /\ UNCHANGED fuse_rest

FuseNext == \E order \in CompletionOrders : Compose(order)

(***************************************************************************)
(* Budgeted prompt; a text is a sequence of characters by their class:     *)
(* "c" a CJK character (U+4E00..U+9FFF), "n" a newline, "a" any other      *)
(***************************************************************************)

MaxSections == 3

PromptSection(name, content, priority) ==
    [name |-> name, content |-> content, priority |-> priority]

CountOf(text, class) == Cardinality({ i \in 1..Len(text) : text[i] = class })

\* int(cjk * 1.5 + (len - cjk) / 4 * 1.3)
estimate_tokens(text) ==
    IF text = <<>> THEN 0
    ELSE (60 * CountOf(text, "c") + 13 * (Len(text) - CountOf(text, "c"))) \div 40

\* "\n[...已截断]"
TruncationMark == <<"n", "a", "a", "a", "a", "c", "c", "c", "a">>

\* "\n[预算限制，已省略: " and "]" around the names joined by ", "
RECURSIVE JoinWith(_, _)
JoinWith(texts, sep) ==
    IF texts = <<>> THEN <<>>
    ELSE IF Len(texts) = 1 THEN texts[1]
    ELSE texts[1] \o sep \o JoinWith(Tail(texts), sep)

DroppedLine(dropped) ==
    <<"n", "a", "c", "c", "c", "c", "a", "c", "c", "c", "a", "a">>
    \o JoinWith(dropped, <<"a", "a">>) \o <<"a">>

\* sorted(sections, key = priority): stable
RECURSIVE InsertBySectionPriority(_, _)
InsertBySectionPriority(sorted, s) ==
    IF sorted = <<>> THEN <<s>>
    ELSE IF Head(sorted).priority <= s.priority
         THEN <<Head(sorted)>> \o InsertBySectionPriority(Tail(sorted), s)
         ELSE <<s>> \o sorted

RECURSIVE SortedSections(_)
SortedSections(sections) ==
    IF sections = <<>> THEN <<>>
    ELSE InsertBySectionPriority(SortedSections(SubSeq(sections, 1, Len(sections) - 1)),
                                 sections[Len(sections)])

\* str.rfind("\n"), 0-based, -1 when there is none
LastNewline(text) ==
    IF \E i \in 1..Len(text) : text[i] = "n"
    THEN (CHOOSE i \in 1..Len(text) :
             text[i] = "n" /\ \A j \in (i + 1)..Len(text) : text[j] # "n") - 1
    ELSE -1

\* the forced, truncated form of a priority-1 section
Truncated(content, tokens, remaining) ==
    LET cut_len == (Len(content) * remaining) \div Max(tokens, 1)
        cut == SubSeq(content, 1, cut_len)
        last_nl == LastNewline(cut)
    IN  (IF 2 * last_nl > Len(cut) THEN SubSeq(cut, 1, last_nl) ELSE cut) \o TruncationMark

\* the loop over the sorted sections
RECURSIVE FitSections(_, _, _)
FitSections(sorted_s, max_tokens, acc) ==
    IF sorted_s = <<>> THEN acc
    ELSE LET s == Head(sorted_s)
             tokens == estimate_tokens(s.content)
             remaining == max_tokens - acc.used
         IN  FitSections(Tail(sorted_s), max_tokens,
                IF s.content = <<>> THEN acc
                ELSE IF tokens <= remaining
                THEN [acc EXCEPT !.parts = Append(@, s.content), !.used = @ + tokens]
                ELSE IF s.priority = 1
                THEN [acc EXCEPT !.parts = Append(@, Truncated(s.content, tokens, remaining)),
                                 !.used = max_tokens]
                ELSE [acc EXCEPT !.dropped = Append(@, s.name)])

build_prompt(sections, max_tokens) ==
    LET fit == FitSections(SortedSections(sections), max_tokens,
                           [parts |-> <<>>, used |-> 0, dropped |-> <<>>])
        parts == IF fit.dropped # <<>> THEN Append(fit.parts, DroppedLine(fit.dropped))
                 ELSE fit.parts
    IN  [parts |-> parts, text |-> JoinWith(parts, <<"n", "n">>)]

\* contents of 0, 1, 3 and 6 estimated tokens, one with a newline past its middle
ContentInputs ==
    { <<>>, <<"a", "a", "a", "a">>, <<"c", "c", "n", "a">>, <<"c", "c", "c", "c">> }

RECURSIVE SectionListsOfLen(_)
SectionListsOfLen(n) ==
    IF n = 0 THEN {<<>>}
    ELSE { Append(l, PromptSection(<<"a">>, c, p)) :
              l \in SectionListsOfLen(n - 1), c \in ContentInputs, p \in {1, 2, 3} }

BudgetInputs == {0, 4, 8}

PromptInput(sections, max_tokens) == [sections |-> sections, max_tokens |-> max_tokens]

\* the calls with up to max_sections sections
PromptInputsUpTo(max_sections) ==
    { PromptInput(l, b) :
        l \in UNION { SectionListsOfLen(n) : n \in 0..max_sections }, b \in BudgetInputs }

PromptIdle == prompt_in = PromptInput(<<>>, 8000) /\ prompt_out = NULL

BuildPrompt ==
    /\ prompt_out = NULL
    /\ prompt_out' = build_prompt(prompt_in.sections, prompt_in.max_tokens)
    /\ UNCHANGED prompt_in
    /\ UNCHANGED prompt_rest

PromptNext == BuildPrompt

(***************************************************************************)
(* Strategy registry; default weights in hundredths                        *)
(***************************************************************************)

\* how many classes get decorated
MaxRegistrations == 3

\* a strategy class: what hasattr(cls, "name") gives, and cls.name
StrategyClass(id, has_name, name) == [id |-> id, has_name |-> has_name, name |-> name]

\* two classes claim the name trend_following; one inherits the name of the
\* base class; one has no name attribute
StrategyClasses ==
    { StrategyClass("TrendFollowingStrategy", TRUE, "trend_following"),
      StrategyClass("TrendFollowingV2", TRUE, "trend_following"),
      StrategyClass("MomentumStrategy", TRUE, "momentum"),
      StrategyClass("Unnamed", TRUE, "base"),
      StrategyClass("NotAStrategy", FALSE, "") }

DefaultWeights == {20, 30}

NoRegistration == [cls |-> "", weight |-> 0, raised |-> "none"]

RegistryIdle ==
    /\ _REGISTRY = [n \in {} |-> NoRegistration]
    /\ reg_op = NoRegistration
    /\ n_registrations = 0

\* dict item assignment: a new key is added, the value of an existing key is
\* replaced
SetItem(dict, key, value) ==
    [k \in DOMAIN dict \cup {key} |-> IF k = key THEN value ELSE dict[k]]

\* @register_strategy(weight) applied to a class
register_strategy(cls, weight) ==
    /\ n_registrations < MaxRegistrations
    /\ n_registrations' = n_registrations + 1
    /\ IF ~cls.has_name \/ cls.name = "base"
       THEN /\ reg_op' = [cls |-> cls.id, weight |-> weight, raised |-> "ValueError"]
            /\ UNCHANGED _REGISTRY
       ELSE /\ reg_op' = [cls |-> cls.id, weight |-> weight, raised |-> "none"]
            /\ _REGISTRY' = SetItem(_REGISTRY, cls.name, [cls |-> cls.id, weight |-> weight])
    /\ UNCHANGED reg_rest

RegistryNext == \E cls \in StrategyClasses, weight \in DefaultWeights : register_strategy(cls, weight)

(***************************************************************************)
(* Command-line dispatcher                                                 *)
(***************************************************************************)

\* the keys of COMMANDS
COMMANDS ==
    { "update", "fund", "portfolio", "history", "watchlist", "analyze",
      "recommend", "record-trade", "backtest", "daily", "discover", "fund-flow",
      "hotspot", "learn", "context", "stats", "schedule", "reflect", "knowledge",
      "valuation", "macro", "sentiment", "managers", "allocation", "scenario",
      "intel", "debate", "walk-forward", "monte-carlo", "llm" }

HelpVerbs == {"-h", "--help", "help"}

\* verbs that are neither commands nor a request for help
UnknownVerbs == {"frobnicate", "recomend", ""}

\* sys.argv[1:]: nothing, or a verb with or without one more argument
ArgvInputs ==
    {<<>>} \cup { <<v>> : v \in COMMANDS \cup HelpVerbs \cup UnknownVerbs }
           \cup { <<v, "110020">> : v \in COMMANDS \cup HelpVerbs \cup UnknownVerbs }

CliIdle ==
    /\ cli_pc = "idle"
    /\ cli_args = <<>>
    /\ cli_printed = "nothing"
    /\ exit_status = NULL

\* main() up to the call of the command's function, or to its return
main(args) ==
    /\ cli_pc = "idle"
    /\ cli_args' = args
    /\ IF args = <<>> \/ args[1] \in HelpVerbs
       THEN /\ cli_printed' = "usage"
            /\ cli_pc' = "exited"
            /\ exit_status' = Some(0)
       ELSE IF args[1] \notin COMMANDS
       THEN /\ cli_printed' = "unknown command"
            /\ cli_pc' = "exited"
            /\ exit_status' = Some(0)
       ELSE /\ cli_pc' = "cmd_func"
            /\ UNCHANGED <<cli_printed, exit_status>>
    /\ UNCHANGED cli_rest

\* the command's function returns: main returns and the interpreter ends
CommandCompletes ==
    /\ cli_pc = "cmd_func"
    /\ cli_pc' = "exited"
    /\ exit_status' = Some(0)
    /\ UNCHANGED <<cli_args, cli_printed>>
    /\ UNCHANGED cli_rest

\* the command's function raises: nothing in main catches it, the
\* interpreter prints the traceback and ends with status 1
CommandRaises ==
    /\ cli_pc = "cmd_func"
    /\ cli_pc' = "exited"
    /\ cli_printed' = "traceback"
    /\ exit_status' = Some(1)
    /\ UNCHANGED cli_args
    /\ UNCHANGED cli_rest

Dispatch == \E args \in ArgvInputs : main(args)

CliNext ==
    \/ Dispatch
    \/ CommandCompletes
    \/ CommandRaises

(***************************************************************************)
(* Three-tier data fallback; ages and the ttl in hours                     *)
(***************************************************************************)

\* what a callable does: raises, returns None, or returns a value
FnRaises == [kind |-> "raises", value |-> <<>>]
FnNone == [kind |-> "none", value |-> <<>>]
FnReturns(value) == [kind |-> "returns", value |-> <<value>>]
\* returns what is not a (data, updated_at) pair: unpacking it raises
FnMalformed == [kind |-> "malformed", value |-> <<>>]

\* the (data, updated_at) pair of db_fn: updated_at a date that many hours
\* before now, or a string strptime rejects, or None
Cached(data, parses, age) == [data |-> data, parses |-> parses, age |-> age]

AgeInputs == {5, 23, 24, 29, 53}
TtlInputs == {6, 24}

ApiFns == {FnRaises, FnNone, FnReturns("live")}

DbFns ==
    {FnRaises, FnNone, FnMalformed}
    \cup { FnReturns(Cached("cached", TRUE, age)) : age \in AgeInputs }
    \cup { FnReturns(Cached("cached", FALSE, 0)) }

DefaultFns == {FnRaises, FnReturns("neutral")}

FallbackInput(api_fn, db_fn, default_fn, ttl_hours) ==
    [api_fn |-> api_fn, db_fn |-> db_fn, default_fn |-> default_fn, ttl_hours |-> ttl_hours]

NoFallbackInput == FallbackInput(FnNone, FnNone, FnReturns("neutral"), 24)

DataResult(data, quality, source) == [data |-> data, quality |-> quality, source |-> source]

FallbackIdle ==
    /\ fb_pc = "idle"
    /\ fb_in = NoFallbackInput
    /\ fb_tried = <<>>
    /\ fb_result = NULL

\* CACHED up to and including the ttl
CacheQuality_inclusive(cached, ttl_hours) ==
    IF cached.parses /\ cached.age <= ttl_hours THEN "CACHED" ELSE "STALE"

\* age < timedelta(hours = ttl_hours), the age ttl_hours + 1 when the date
\* does not parse
CacheQuality(cached, ttl_hours) ==
    IF (IF cached.parses THEN cached.age ELSE ttl_hours + 1) < ttl_hours
    THEN "CACHED" ELSE "STALE"

\* db_fn returned a pair
IsPair(fn) == fn.kind = "returns"

fetch_with_fallback ==
    /\ fb_pc = "idle"
    /\ \E api_fn \in ApiFns, db_fn \in DbFns, default_fn \in DefaultFns, ttl_hours \in TtlInputs :
          fb_in' = FallbackInput(api_fn, db_fn, default_fn, ttl_hours)
    /\ fb_pc' = "api"
    /\ UNCHANGED <<fb_tried, fb_result>>
    /\ UNCHANGED fb_rest

\* tier 1: the live value, unless api_fn raises or returns None
TryApi ==
    /\ fb_pc = "api"
    /\ fb_tried' = Append(fb_tried, "api")
    /\ IF fb_in.api_fn.kind = "returns"
       THEN /\ fb_result' = Some(DataResult(fb_in.api_fn.value[1], "REALTIME", "api"))
            /\ fb_pc' = "returned"
       ELSE /\ fb_pc' = "db"
            /\ UNCHANGED fb_result
    /\ UNCHANGED fb_in
    /\ UNCHANGED fb_rest

\* tier 2: the cached value, unless db_fn raises, returns None or returns
\* what cannot be unpacked
TryDb ==
    /\ fb_pc = "db"
    /\ fb_tried' = Append(fb_tried, "db")
    /\ IF IsPair(fb_in.db_fn)
       THEN /\ fb_result' = Some(DataResult(fb_in.db_fn.value[1].data,
                                            CacheQuality(fb_in.db_fn.value[1], fb_in.ttl_hours),
                                            "db"))
            /\ fb_pc' = "returned"
       ELSE /\ fb_pc' = "default"
            /\ UNCHANGED fb_result
    /\ UNCHANGED fb_in
    /\ UNCHANGED fb_rest

\* tier 3: the neutral default; default_fn is called outside any try
UseDefault ==
    /\ fb_pc = "default"
    /\ fb_tried' = Append(fb_tried, "default")
    /\ IF fb_in.default_fn.kind = "returns"
       THEN /\ fb_result' = Some(DataResult(fb_in.default_fn.value[1], "DEFAULT", "default"))
            /\ fb_pc' = "returned"
       ELSE /\ fb_pc' = "raised"
            /\ UNCHANGED fb_result
    /\ UNCHANGED fb_in
    /\ UNCHANGED fb_rest

FallbackNext ==
    \/ fetch_with_fallback
    \/ TryApi
    \/ TryDb
    \/ UseDefault

(***************************************************************************)
(* Daily routine: learning, NAV update, composite signals and their        *)
(* registration, one run every DailyStep days                              *)
(***************************************************************************)

\* runs of cmd_daily
MaxCycles == 8

\* calendar days between two runs
DailyStep == 10

DailyIdle ==
    /\ daily_pc = "idle"
    /\ daily_runs = 0
    /\ daily_emitted = <<>>

\* the strategies on the day's data: trend_following buys the fund or is
\* silent, the others are silent
DailyFuseInput(emits) ==
    FuseInput(TRUE,
              [s \in Strategies |->
                  IF emits /\ s = "trend_following"
                  THEN Returns(<<StrategySignal("110020", "buy", 9, s)>>)
                  ELSE Returns(<<>>)],
              [trend_following |-> 3, mean_reversion |-> 3, momentum |-> 3])

\* a composite signal as record_signals_from_composite reads it: the names
\* in brackets at the start of the reason's lines
RECURSIVE AsRecorded(_)
AsRecorded(signals) ==
    IF signals = <<>> THEN <<>>
    ELSE <<Signal(Head(signals).fund_code, Head(signals).signal_type,
                  Head(signals).confidence,
                  [i \in 1..Len(Head(signals).reason) |-> Head(signals).reason[i].tag])>>
         \o AsRecorded(Tail(signals))

\* cmd_daily is started
StartDaily ==
    /\ daily_pc = "idle"
    /\ daily_runs < MaxCycles
    /\ daily_pc' = "learn"
    /\ daily_runs' = daily_runs + 1
    /\ UNCHANGED <<daily_emitted, val_vars>>
    /\ UNCHANGED daily_rest

\* step 1, run_learning_cycle: the pending rows are validated
DailyLearn ==
    /\ daily_pc = "learn"
    /\ signal_validation' = ValidatedLog
    /\ daily_pc' = "performance"
    /\ UNCHANGED <<daily_runs, daily_emitted, today, fund_nav, strategy_performance>>
    /\ UNCHANGED daily_rest

\* step 1, run_learning_cycle: the performance table is brought up to date
DailyPerformance ==
    /\ daily_pc = "performance"
    /\ strategy_performance' = UpdatedPerformance
    /\ daily_pc' = "update"
    /\ UNCHANGED <<daily_runs, daily_emitted, today, fund_nav, signal_validation>>
    /\ UNCHANGED daily_rest

\* step 3: cmd_update stores the day's NAV, 3% of the first NAV below or
\* above the last one
DailyUpdate ==
    /\ daily_pc = "update"
    /\ \E change \in {-3, 3} :
          fund_nav' = fund_nav \cup
              {[fund_code |-> "110020", nav_date |-> today,
                nav |-> IF NavRowsOf("110020") = {} THEN 100
                        ELSE LatestNav("110020") + change]}
    /\ daily_pc' = "signals"
    /\ UNCHANGED <<daily_runs, daily_emitted, today, signal_validation, strategy_performance>>
    /\ UNCHANGED daily_rest

\* after step 10: the composite signals are generated and, when there are
\* any, registered for validation
DailySignals ==
    /\ daily_pc = "signals"
    /\ \E emits \in BOOLEAN, order \in CompletionOrders :
          LET signals == generate_composite_signals(DailyFuseInput(emits), order,
                                                    signal_validation, today).signals
          IN  /\ daily_emitted' = signals
              /\ signal_validation' =
                    IF signals # <<>>
                    THEN RecordAll(signal_validation, AsRecorded(signals), "ranging")
                    ELSE signal_validation
    /\ daily_pc' = "done"
    /\ UNCHANGED <<daily_runs, today, fund_nav, strategy_performance>>
    /\ UNCHANGED daily_rest

\* the run is over; the next one starts DailyStep days later
DailyEnds ==
    /\ daily_pc = "done"
    /\ daily_pc' = "idle"
    /\ today' = today + DailyStep
    /\ UNCHANGED <<daily_runs, daily_emitted, fund_nav, signal_validation, strategy_performance>>
    /\ UNCHANGED daily_rest

DailyNext ==
    \/ StartDaily
    \/ DailyLearn
    \/ DailyPerformance
    \/ DailyUpdate
    \/ DailySignals
    \/ DailyEnds

(***************************************************************************)
(* Knowledge base writes, one commit at a time: execute_write opens a      *)
(* connection, runs one statement, commits and closes                      *)
(***************************************************************************)

\* processes that store knowledge lines
Writers == {"w1", "w2"}

\* rows of knowledge_base
MaxKnowledge == 3

NoLine == [content |-> "", category |-> ""]

NothingSeen == [base |-> {}, fts |-> {}]

StoreIdle ==
    /\ kbw_pc = [w \in Writers |-> "idle"]
    /\ kbw_line = [w \in Writers |-> NoLine]
    /\ kbw_seen = NothingSeen

\* the store as the statements of one writer read and write it
Store == [kb |-> knowledge_base, fts |-> knowledge_fts]

\* the SELECT for an active row of the same content, then the first
\* execute_write: the UPDATE of the row found, or the INSERT of a new row
WriteBase(w) ==
    /\ kbw_pc[w] = "idle"
    /\ kb_op.op = "init_db"
    /\ \E content \in Contents, category \in {"strategy_lesson", "risk_insight"} :
          IF Existing(knowledge_base, content) # {}
          THEN /\ category = "strategy_lesson"
               /\ knowledge_base[FirstOf(Existing(knowledge_base, content))].times_validated
                     < MaxValidated
               /\ knowledge_base' =
                     Validate(Store, FirstOf(Existing(knowledge_base, content))).kb
               /\ UNCHANGED <<kbw_pc, kbw_line>>
          ELSE /\ Len(knowledge_base) < MaxKnowledge
               /\ knowledge_base' = InsertKnowledge(Store, category, content).kb
               /\ kbw_pc' = [kbw_pc EXCEPT ![w] = "inserted"]
               /\ kbw_line' = [kbw_line EXCEPT ![w] =
                                  [content |-> content, category |-> category]]
    /\ UNCHANGED <<knowledge_fts, fts5, fts_created, kb_op, kbw_seen>>
    /\ UNCHANGED kbw_rest

\* _sync_fts: the second execute_write, on a connection of its own
WriteMirror(w) ==
    /\ kbw_pc[w] = "inserted"
    /\ knowledge_fts' = _sync_fts(Store, kbw_line[w].content, kbw_line[w].category).fts
    /\ kbw_pc' = [kbw_pc EXCEPT ![w] = "idle"]
    /\ kbw_line' = [kbw_line EXCEPT ![w] = NoLine]
    /\ UNCHANGED <<knowledge_base, fts5, fts_created, kb_op, kbw_seen>>
    /\ UNCHANGED kbw_rest

\* the process stops after the first commit and starts again later
ProcessStops(w) ==
    /\ kbw_pc[w] = "inserted"
    /\ kbw_pc' = [kbw_pc EXCEPT ![w] = "idle"]
    /\ kbw_line' = [kbw_line EXCEPT ![w] = NoLine]
    /\ UNCHANGED <<kb_vars, kbw_seen>>
    /\ UNCHANGED kbw_rest

\* another connection reads the contents of both tables
ReadStore ==
    /\ kbw_seen' = [base |-> {knowledge_base[i].content : i \in 1..Len(knowledge_base)},
                    fts |-> {e.content : e \in knowledge_fts}]
    /\ UNCHANGED <<kb_vars, kbw_pc, kbw_line>>
    /\ UNCHANGED kbw_rest

WriterInsertsBase == \E w \in Writers : WriteBase(w)

WriterInsertsMirror == \E w \in Writers : WriteMirror(w)

WriterStops == \E w \in Writers : ProcessStops(w)

StoreNext ==
    \/ init_db
    \/ WriterInsertsBase
    \/ WriterInsertsMirror
    \/ WriterStops
    \/ ReadStore

(***************************************************************************)
(* Enrichment stage of generate_composite_signals: three tasks on a pool   *)
(* of three threads, the run waiting for them; time in seconds             *)
(***************************************************************************)

EnrichKeys == {"valuation", "macro", "managers"}

\* the clock stops here
MaxClock == 120

\* seconds between two readings of the clock
TickSeconds == 10

\* future.result(timeout=60)
result_timeout == 60

\* a task returns after some seconds, or never
EnrichTask(returns, after) == [returns |-> returns, after |-> after]

EnrichTasks == {EnrichTask(TRUE, 10), EnrichTask(TRUE, 90), EnrichTask(FALSE, 0)}

EnrichIdle ==
    /\ enrich_pc = "idle"
    /\ enrich_tasks = [k \in EnrichKeys |-> EnrichTask(TRUE, 10)]
    /\ enrich_now = 0
    /\ enrich_yielded = {}

\* the future of the task is done
Done(k) == enrich_tasks[k].returns /\ enrich_tasks[k].after <= enrich_now

\* the three tasks are submitted
SubmitEnrichment ==
    /\ enrich_pc = "idle"
    /\ enrich_tasks' \in [EnrichKeys -> EnrichTasks]
    /\ enrich_pc' = "enriching"
    /\ UNCHANGED <<enrich_now, enrich_yielded>>
    /\ UNCHANGED enrich_rest

\* as_completed(futures), called without a timeout, yields a future once it
\* is done; future.result(timeout=60) on a done future returns at once and
\* the result is stored in market_data
FutureYielded(k) ==
    /\ enrich_pc = "enriching"
    /\ k \notin enrich_yielded
    /\ Done(k)
    /\ enrich_yielded' = enrich_yielded \cup {k}
    /\ UNCHANGED <<enrich_pc, enrich_tasks, enrich_now>>
    /\ UNCHANGED enrich_rest

\* every future was yielded; the with block ends with shutdown(wait=True)
\* and the run goes on to the strategies
PoolExits ==
    /\ enrich_pc = "enriching"
    /\ enrich_yielded = EnrichKeys
    /\ enrich_pc' = "strategies"
    /\ UNCHANGED <<enrich_tasks, enrich_now, enrich_yielded>>
    /\ UNCHANGED enrich_rest

\* time passes while the run has nothing to do but wait
Tick ==
    /\ enrich_pc = "enriching"
    /\ \A k \in EnrichKeys : k \in enrich_yielded \/ ~Done(k)
    /\ enrich_yielded # EnrichKeys
    /\ enrich_now < MaxClock
    /\ enrich_now' = enrich_now + TickSeconds
    /\ UNCHANGED <<enrich_pc, enrich_tasks, enrich_yielded>>
    /\ UNCHANGED enrich_rest

AnyFutureYielded == \E k \in EnrichKeys : FutureYielded(k)

EnrichNext ==
    \/ SubmitEnrichment
    \/ AnyFutureYielded
    \/ PoolExits
    \/ Tick

(***************************************************************************)
(* Trade-entry sessions of the bot; time in seconds                        *)
(***************************************************************************)

Users == {"u1"}

\* the clock stops here
MaxTime == 700

\* seconds between two messages
MessageGap == 100

\* TradeSession.TIMEOUT
TIMEOUT == 300

\* TradeSession.STEPS, by their field names
STEPS == <<"fund_code", "action", "amount", "nav", "trade_date", "reason", "confirm">>

\* float(text): a number in tenths, nan, or a ValueError
Float(v) == [ok |-> TRUE, nan |-> FALSE, v |-> v]
FloatNan == [ok |-> TRUE, nan |-> TRUE, v |-> 0]
ValueError == [ok |-> FALSE, nan |-> FALSE, v |-> 0]

\* a message after strip(): its text, text.isdigit(), len(text), float(text)
\* and whether strptime(text, "%Y-%m-%d") parses it
Text(raw, isdigit, len, float, is_date) ==
    [raw |-> raw, isdigit |-> isdigit, len |-> len, float |-> float, is_date |-> is_date]

TextInputs ==
    { Text("110020", TRUE, 6, Float(1100200), FALSE),
      Text("12345", TRUE, 5, Float(123450), FALSE),
      Text("0", TRUE, 1, Float(0), FALSE),
      Text("nan", FALSE, 3, FloatNan, FALSE),
      Text("buy", FALSE, 3, ValueError, FALSE),
      Text("Sell", FALSE, 4, ValueError, FALSE),
      Text("2024-01-05", FALSE, 10, ValueError, TRUE),
      Text("today", FALSE, 5, ValueError, FALSE),
      Text("skip", FALSE, 4, ValueError, FALSE),
      Text("confirm", FALSE, 7, ValueError, FALSE),
      Text("no", FALSE, 2, ValueError, FALSE),
      Text("cancel", FALSE, 6, ValueError, FALSE) }

\* text.lower()
Lower(raw) == IF raw = "Sell" THEN "sell" ELSE raw

\* datetime.now().strftime("%Y-%m-%d")
TodayText == "2026-11-04"

\* self.data: a field is NULL until it is set
NoData ==
    [fund_code |-> NULL, action |-> NULL, amount |-> NULL, nav |-> NULL,
     trade_date |-> NULL, reason |-> NULL]

TradeSession(step, data, created_at) ==
    [step |-> step, data |-> data, created_at |-> created_at]

NoSession == TradeSession(-1, NoData, 0)

NoReply == [op |-> "none", user_id |-> "", text |-> "", result |-> "", data |-> NULL]

Reply(op, user_id, text, result, data) ==
    [op |-> op, user_id |-> user_id, text |-> text, result |-> result, data |-> data]

SessionIdle ==
    /\ _sessions = [u \in Users |-> NoSession]
    /\ sess_now = 0
    /\ sess_reply = NoReply

\* time.time() - self.created_at > self.TIMEOUT
is_expired(session) == sess_now - session.created_at > TIMEOUT

current_field(session) ==
    IF session.step < Len(STEPS) THEN STEPS[session.step + 1] ELSE "done"

\* what process_input hands back and what it leaves of the session
Outcome(result, data, session) == [result |-> result, data |-> data, session |-> session]

\* a rejected input that restarts the timeout
RejectedRestartsTimeout(session) ==
    Outcome("error", NULL, [session EXCEPT !.created_at = sess_now])

\* return "error:...", None
Rejected(session) == Outcome("error", NULL, session)

\* the reason taken as optional: the step before it leads to the confirm step
AdvanceSkipsReason(session, data) ==
    LET next == TradeSession(IF session.step = 4 THEN 6 ELSE session.step + 1,
                             data, sess_now)
    IN  IF current_field(next) = "confirm" THEN Outcome("confirm", Some(data), next)
        ELSE Outcome("prompt", NULL, next)

\* the end of process_input: the step and the timeout advance
Advance(session, data) ==
    LET next == TradeSession(session.step + 1, data, sess_now)
    IN  IF current_field(next) = "confirm" THEN Outcome("confirm", Some(data), next)
        ELSE Outcome("prompt", NULL, next)

\* the confirm step of process_input
Confirm(session, text) ==
    IF text.raw \in {"confirm", "y", "yes"} THEN Outcome("success", Some(session.data), session)
    ELSE IF text.raw \in {"cancel", "n", "no"} THEN Outcome("cancelled", NULL, session)
    ELSE Rejected(session)

process_input(session, text) ==
    LET field_name == current_field(session)
        data == session.data
    IN  IF text.raw = "cancel" THEN Outcome("cancelled", NULL, session)
        ELSE CASE field_name = "fund_code" ->
                    IF ~text.isdigit \/ text.len # 6 THEN Rejected(session)
                    ELSE Advance(session, [data EXCEPT !.fund_code = Some(text.raw)])
               [] field_name = "action" ->
                    IF Lower(text.raw) = "buy"
                    THEN Advance(session, [data EXCEPT !.action = Some("buy")])
                    ELSE IF Lower(text.raw) = "sell"
                    THEN Advance(session, [data EXCEPT !.action = Some("sell")])
                    ELSE Rejected(session)
               [] field_name = "amount" ->
                    IF ~text.float.ok THEN Rejected(session)
                    ELSE IF ~text.float.nan /\ text.float.v <= 0 THEN Rejected(session)
                    ELSE Advance(session, [data EXCEPT !.amount = Some(text.float)])
               [] field_name = "nav" ->
                    IF ~text.float.ok THEN Rejected(session)
                    ELSE IF ~text.float.nan /\ text.float.v <= 0 THEN Rejected(session)
                    ELSE Advance(session, [data EXCEPT !.nav = Some(text.float)])
               [] field_name = "trade_date" ->
                    IF text.raw \in {"today", "t"}
                    THEN Advance(session, [data EXCEPT !.trade_date = Some(TodayText)])
                    ELSE IF text.is_date
                    THEN Advance(session, [data EXCEPT !.trade_date = Some(text.raw)])
                    ELSE Rejected(session)
               [] field_name = "reason" ->
                    Advance(session, [data EXCEPT !.reason =
                                Some(IF text.raw \in {"skip", "s"} THEN "" ELSE text.raw)])
               [] field_name = "confirm" -> Confirm(session, text)
               [] OTHER -> Advance(session, data)

\* SessionManager.start_trade_session
start_trade_session(user_id) ==
    /\ _sessions' = [_sessions EXCEPT ![user_id] = TradeSession(0, NoData, sess_now)]
    /\ sess_reply' = Reply("start", user_id, "", "prompt", NULL)
    /\ UNCHANGED sess_now
    /\ UNCHANGED sess_rest

\* SessionManager.has_active_session
has_active_session(user_id) ==
    /\ _sessions' = IF _sessions[user_id] # NoSession /\ is_expired(_sessions[user_id])
                    THEN [_sessions EXCEPT ![user_id] = NoSession]
                    ELSE _sessions
    /\ sess_reply' = Reply("has_active_session", user_id, "",
                           IF _sessions'[user_id] # NoSession THEN "True" ELSE "False", NULL)
    /\ UNCHANGED sess_now
    /\ UNCHANGED sess_rest

\* SessionManager.process
process(user_id, text) ==
    LET session == _sessions[user_id]
        out == process_input(session, text)
    IN  /\ IF session = NoSession
           THEN /\ sess_reply' = Reply("process", user_id, text.raw, "error", NULL)
                /\ UNCHANGED _sessions
           ELSE IF is_expired(session)
           THEN /\ sess_reply' = Reply("process", user_id, text.raw, "expired", NULL)
                /\ _sessions' = [_sessions EXCEPT ![user_id] = NoSession]
           ELSE /\ sess_reply' = Reply("process", user_id, text.raw, out.result, out.data)
                /\ _sessions' = [_sessions EXCEPT ![user_id] =
                                    IF out.result \in {"success", "cancelled", "expired"}
                                    THEN NoSession ELSE out.session]
        /\ UNCHANGED sess_now
        /\ UNCHANGED sess_rest

\* SessionManager.cancel
cancel(user_id) ==
    /\ _sessions' = [_sessions EXCEPT ![user_id] = NoSession]
    /\ sess_reply' = Reply("cancel", user_id, "", "", NULL)
    /\ UNCHANGED sess_now
    /\ UNCHANGED sess_rest

\* time passes between two messages
TimePasses ==
    /\ sess_now < MaxTime
    /\ sess_now' = sess_now + MessageGap
    /\ UNCHANGED <<_sessions, sess_reply>>
    /\ UNCHANGED sess_rest

StartSession == \E u \in Users : start_trade_session(u)

AskActive == \E u \in Users : has_active_session(u)

ProcessMessage == \E u \in Users, text \in TextInputs : process(u, text)

CancelSession == \E u \in Users : cancel(u)

SessionNext ==
    \/ StartSession
    \/ AskActive
    \/ ProcessMessage
    \/ CancelSession
    \/ TimePasses

(***************************************************************************)
(* Specifications: one per subsystem, the others idle                      *)
(***************************************************************************)

Idle == LLMIdle /\ ValIdle /\ KBIdle /\ AllocIdle /\ RecIdle /\ FuseIdle /\
        PromptIdle /\ RegistryIdle /\ CliIdle /\ FallbackIdle /\ DailyIdle /\
        StoreIdle /\ EnrichIdle /\ SessionIdle

\* the subsystems a specification leaves in their idle state
ValOthersIdle == LLMIdle /\ KBIdle /\ AllocIdle /\ RecIdle /\ FuseIdle /\
                 PromptIdle /\ RegistryIdle /\ CliIdle /\ FallbackIdle /\
                 DailyIdle /\ StoreIdle /\ EnrichIdle /\ SessionIdle
KBOthersIdle == LLMIdle /\ ValIdle /\ AllocIdle /\ RecIdle /\ FuseIdle /\
                PromptIdle /\ RegistryIdle /\ CliIdle /\ FallbackIdle /\
                DailyIdle /\ StoreIdle /\ EnrichIdle /\ SessionIdle
AllocOthersIdle == LLMIdle /\ ValIdle /\ KBIdle /\ RecIdle /\ FuseIdle /\
                   PromptIdle /\ RegistryIdle /\ CliIdle /\ FallbackIdle /\
                   DailyIdle /\ StoreIdle /\ EnrichIdle /\ SessionIdle
FuseOthersIdle == LLMIdle /\ KBIdle /\ AllocIdle /\ RecIdle /\ PromptIdle /\
                  RegistryIdle /\ CliIdle /\ FallbackIdle /\ DailyIdle /\
                  StoreIdle /\ EnrichIdle /\ SessionIdle
PromptOthersIdle == LLMIdle /\ ValIdle /\ KBIdle /\ AllocIdle /\ RecIdle /\
                    FuseIdle /\ RegistryIdle /\ CliIdle /\ FallbackIdle /\
                    DailyIdle /\ StoreIdle /\ EnrichIdle /\ SessionIdle

\* the store on a build of SQLite with or without the FTS5 module
InitKB ==
    /\ KBOthersIdle
    /\ knowledge_base = <<>>
    /\ knowledge_fts = {}
    /\ fts5 \in BOOLEAN
    /\ fts_created = FALSE
    /\ kb_op = NoOp

SpecLLM == Idle /\ [][LLMNext]_vars

SpecVal == Idle /\ [][ValNext]_vars

\* the learning cycle is run again and again: cmd_daily starts with it
SpecLearning == Idle /\ [][ValNext]_vars /\ WF_vars(validate_pending_signals)

SpecKB == InitKB /\ [][KBNext]_vars

\* a log of judged and unjudged signals on day 100
InitPerf ==
    /\ ValOthersIdle
    /\ today = 100
    /\ fund_nav = {}
    /\ signal_validation \in PerfLogsUpTo(MaxPerfRows)
    /\ strategy_performance = {}

SpecPerf == InitPerf /\ [][PerfNext]_vars

\* get_target_allocation on every regime label and pe_percentile
InitAlloc ==
    /\ AllocOthersIdle
    /\ alloc_in \in AllocInputs
    /\ alloc_out = NULL

SpecAlloc == InitAlloc /\ [][AllocNext]_vars

SpecRec == Idle /\ [][RecNext]_vars

InitFuse == /\ FuseOthersIdle /\ today = 100 /\ fund_nav = {} /\ signal_validation \in GuardLogs /\ strategy_performance = {} /\ fuse_in \in FuseInputs /\ fuse_runs = <<>>
SpecFuse == InitFuse /\ [][FuseNext]_vars

\* two strategies of opposite views on one fund, the third silent: A buys at
\* confidence conf_a, B sells at 0.8, under weights weight_a and 0.5
ConflictInput(conf_a, weight_a) ==
    FuseInput(TRUE,
              [s \in Strategies |->
                  CASE s = "trend_following" ->
                          Returns(<<StrategySignal("110020", "buy", conf_a, s)>>)
                    [] s = "mean_reversion" ->
                          Returns(<<StrategySignal("110020", "sell", 8, s)>>)
                    [] OTHER -> Returns(<<>>)],
              [trend_following |-> weight_a, mean_reversion |-> 5, momentum |-> 3])

ConflictInputs == { ConflictInput(c, w) : c \in {8, 9}, w \in {5, 6, 10} }

InitConflict == /\ FuseOthersIdle /\ today = 100 /\ fund_nav = {} /\ signal_validation \in GuardLogs /\ strategy_performance = {} /\ fuse_in \in ConflictInputs /\ fuse_runs = <<>>
SpecConflict == InitConflict /\ [][FuseNext]_vars

InitPrompt == /\ PromptOthersIdle /\ prompt_in \in PromptInputsUpTo(MaxSections) /\ prompt_out = NULL
SpecPrompt == InitPrompt /\ [][PromptNext]_vars

SpecRegistry == Idle /\ [][RegistryNext]_vars

SpecCli == Idle /\ [][CliNext]_vars

SpecFallback == Idle /\ [][FallbackNext]_vars

SpecDaily == Idle /\ [][DailyNext]_vars

SpecStore == Idle /\ [][StoreNext]_vars

SpecEnrich == Idle /\ [][EnrichNext]_vars

SpecSession == Idle /\ [][SessionNext]_vars

(***************************************************************************)
(* Properties of the LLM gateway                                           *)
(***************************************************************************)

TotalDispatches == n_dispatch["gemini"] + n_dispatch["anthropic"]

\* C1: when call_llm raises because every attempt on every provider of the
\* chain failed with a retryable error, the raised LLMError carries the
\* provider, the model and the category of the last attempt made.
C1_RaisedIsLastAttempt ==
    raised_by = "exhausted" =>
        /\ llm_raised.provider = last_attempt.provider
        /\ llm_raised.model = last_attempt.model
        /\ llm_raised.category = last_attempt.outcome

\* every attempt of both providers was made and failed, the last errors differ
C1_Witness ==
    /\ raised_by = "exhausted"
    /\ Len(provider_chain) = 2
    /\ n_dispatch[provider_chain[1]] = max_retries
    /\ n_dispatch[provider_chain[2]] = max_retries
    /\ first_outcome[provider_chain[2]] # last_attempt.outcome

\* the tier of the target provider that answers to the tier m has in the
\* original provider (the decision tier for a name that is no tier)
TierEquivalent(m, target, original) ==
    LET tiers == {"analysis_model", "decision_model", "critical_model"}
        mine == {t \in tiers : LLMConfig[original][t] = m}
    IN  IF mine = {} THEN {LLMConfig[target].decision_model}
        ELSE {LLMConfig[target][t] : t \in mine}

C2_State ==
    /\ llm_pc = "sleep" => last_attempt.outcome # "rate_limit"
    /\ (llm_pc = "try" /\ last_attempt.outcome = "rate_limit") =>
          /\ provider_chain[chain_idx] # last_attempt.provider
          /\ provider_chain[chain_idx] \notin rate_limited
          /\ attempt = 0
          /\ current_model \in TierEquivalent(model, provider_chain[chain_idx],
                                              llm_env.primary)
    /\ (/\ llm_pc = "returned"
        /\ Len(provider_chain) = 2
        /\ first_outcome[provider_chain[1]] = "rate_limit"
        /\ first_outcome[provider_chain[2]] = "ok") => TotalDispatches = 2

C2_Step ==
    /\ \A p \in Providers : n_dispatch'[p] > n_dispatch[p] => p \notin rate_limited
    /\ (last_attempt'.outcome = "rate_limit" /\ last_attempt' # last_attempt)
          => slept' = slept

\* C2: after an attempt that fails with RATE_LIMIT, call_llm makes no further
\* attempt on that provider and does not sleep; the next attempt goes to the
\* fallback provider with the model resolved to the equivalent tier; with a
\* 429 on the primary's first attempt and the fallback succeeding, there are
\* exactly 2 dispatches.
C2_RateLimitSwitches == []C2_State /\ [][C2_Step]_vars

\* 429 on the first attempt of the primary, the fallback answers
C2_Witness ==
    /\ llm_pc = "returned"
    /\ Len(provider_chain) = 2
    /\ first_outcome[provider_chain[1]] = "rate_limit"
    /\ last_attempt.provider = provider_chain[2]
    /\ last_attempt.model # model
    /\ TotalDispatches = 2
    /\ slept = 0

\* C3: an attempt that fails with AUTH or BILLING makes call_llm raise that
\* error at once: no retry, no sleep, no attempt on the fallback provider.
C3_NonRetryableSurfaces ==
    last_attempt.outcome \in _NON_RETRYABLE =>
        /\ llm_pc = "raised"
        /\ llm_raised.category = last_attempt.outcome
        /\ llm_raised.provider = last_attempt.provider
        /\ llm_raised.model = last_attempt.model

\* a BILLING error on the primary's third attempt, the fallback never tried
C3_Witness ==
    /\ last_attempt.outcome = "billing"
    /\ llm_pc = "raised"
    /\ Len(provider_chain) = 2
    /\ n_dispatch[provider_chain[1]] = max_retries
    /\ n_dispatch[provider_chain[2]] = 0

\* how far the call is from its end: the iterations the two loops have left,
\* counted twice, and one more while a dispatch is due
Rank ==
    IF llm_pc \in {"try", "sleep"}
    THEN ((Len(provider_chain) - chain_idx) * max_retries + (max_retries - attempt)) * 2
         + (IF llm_pc = "try" THEN 1 ELSE 0)
    ELSE 0

C27_State ==
    /\ TotalDispatches <= max_retries * Len(provider_chain)
    /\ \A p \in Providers : n_dispatch[p] <= max_retries
    /\ llm_pc \in {"try", "sleep"} => Rank > 0
    /\ llm_pc = "raised" => llm_raised # NoError
    /\ \A p \in Providers :
          n_dispatch[p] > 0 => \E i \in 1..chain_idx : provider_chain[i] = p

C27_Step ==
    llm_pc \in {"try", "sleep"} =>
        /\ Rank' < Rank
        /\ chain_idx' >= chain_idx
        /\ provider_chain' = provider_chain
        /\ chain_idx = 2 => n_dispatch'[provider_chain[1]] = n_dispatch[provider_chain[1]]

\* C27: call_llm ends after at most max_retries dispatches per provider of
\* the chain, by returning or by raising an LLMError: every step of a call
\* brings the two loops closer to their end.  The providers are asked in
\* chain order, and the primary is not asked again once the fallback is.
C27_BoundedInChainOrder == []C27_State /\ [][C27_Step]_vars

\* both providers failed max_retries times with retryable errors and the
\* call raised the last of them
C27_Witness ==
    /\ llm_pc = "raised"
    /\ raised_by = "exhausted"
    /\ Len(provider_chain) = 2
    /\ \A p \in Providers : n_dispatch[p] = max_retries

(***************************************************************************)
(* Properties of the signal-validation log                                 *)
(***************************************************************************)

RowIds == 1..Len(signal_validation)

\* C4: the validation log holds at most one row per
\* (signal_date, fund_code, strategy_name).
C4_OneRowPerTriple ==
    \A i, j \in RowIds :
        (/\ signal_validation[i].signal_date = signal_validation[j].signal_date
         /\ signal_validation[i].fund_code = signal_validation[j].fund_code
         /\ signal_validation[i].strategy_name = signal_validation[j].strategy_name)
        => i = j

C5_Step ==
    /\ Len(signal_validation') >= Len(signal_validation)
    /\ \A i \in RowIds :
        /\ signal_validation[i].is_correct_7d # NULL =>
             signal_validation'[i].is_correct_7d = signal_validation[i].is_correct_7d
        /\ signal_validation[i].is_correct_30d # NULL =>
             signal_validation'[i].is_correct_30d = signal_validation[i].is_correct_30d

\* C5: once is_correct_7d / is_correct_30d of a row is set, no later
\* operation (a validation run, a NAV upsert followed by a run, a new
\* registration) changes it.
C5_CorrectnessIsFinal == [][C5_Step]_vars

\* a row judged correct at 7 days whose NAV has since been rewritten so that
\* a fresh judgement would be "incorrect"
C5_Witness ==
    \E i \in RowIds :
        LET row == signal_validation[i]
            nav_now == _get_nav_after(row.fund_code, row.signal_date, 7)
        IN  /\ row.is_correct_7d = Some(1)
            /\ nav_now # NULL
            /\ nav_now # row.nav_after_7d
            /\ _check_direction(row.signal_type, nav_now[1], row.nav_at_signal, 7) = 0

\* C6: is_correct_Nd is set if and only if nav_after_Nd is set.
C6_CorrectIffNavAfter ==
    \A i \in RowIds :
        /\ signal_validation[i].is_correct_7d # NULL
             <=> signal_validation[i].nav_after_7d # NULL
        /\ signal_validation[i].is_correct_30d # NULL
             <=> signal_validation[i].nav_after_30d # NULL

\* one row filled at both horizons on a flat return, beside a row that is
\* past its 7-day horizon and still unfilled
C6_Witness ==
    \E i, j \in RowIds :
        /\ signal_validation[i].nav_after_7d # NULL
        /\ signal_validation[i].nav_after_30d = Some(signal_validation[i].nav_at_signal)
        /\ signal_validation[i].is_correct_30d = Some(0)
        /\ signal_validation[j].nav_after_7d = NULL
        /\ signal_validation[j].signal_date <= today - 7

\* the NAV rows of the fund dated on or after signal_date + days
NavOnOrAfter(fund_code, signal_date, days) ==
    {r \in NavRowsOf(fund_code) : r.nav_date >= signal_date + days}

\* the row of the set with the least nav_date
EarliestRow(rows) == CHOOSE r \in rows : \A q \in rows : r.nav_date <= q.nav_date

\* the value the horizon is filled with is the first NAV dated on or after
\* signal_date + days
FilledFromHorizon(row, days, filled) ==
    /\ row.signal_date <= today - days
    /\ NavOnOrAfter(row.fund_code, row.signal_date, days) # {}
    /\ filled = Some(EarliestRow(NavOnOrAfter(row.fund_code, row.signal_date, days)).nav)

C23_Step ==
    \A i \in RowIds :
        /\ (signal_validation[i].nav_after_7d = NULL
              /\ signal_validation'[i].nav_after_7d # NULL)
             => FilledFromHorizon(signal_validation[i], 7,
                                  signal_validation'[i].nav_after_7d)
        /\ (signal_validation[i].nav_after_30d = NULL
              /\ signal_validation'[i].nav_after_30d # NULL)
             => FilledFromHorizon(signal_validation[i], 30,
                                  signal_validation'[i].nav_after_30d)

\* C23: a validation run fills horizon N of a row only when signal_date <=
\* today - N, and the nav_after_Nd it writes is the first NAV dated on or
\* after signal_date + N, never one dated before signal_date + N.
C23_FilledFromHorizonNav == [][C23_Step]_vars

C23_CutoffStep ==
    \A i \in RowIds :
        /\ (signal_validation[i].nav_after_7d = NULL
              /\ signal_validation'[i].nav_after_7d # NULL)
             => signal_validation[i].signal_date <= today - 7
        /\ (signal_validation[i].nav_after_30d = NULL
              /\ signal_validation'[i].nav_after_30d # NULL)
             => signal_validation[i].signal_date <= today - 30

\* the cutoff half of C23 alone
CutoffRespected == [][C23_CutoffStep]_vars

\* the horizon of the row has elapsed and a NAV of its fund dated after the
\* signal date is stored
Due(i, days) ==
    /\ i <= Len(signal_validation)
    /\ signal_validation[i].signal_date <= today - days
    /\ \E r \in NavRowsOf(signal_validation[i].fund_code) :
          r.nav_date > signal_validation[i].signal_date

Filled(i, days) ==
    /\ i <= Len(signal_validation)
    /\ IF days = 7 THEN signal_validation[i].nav_after_7d # NULL
       ELSE signal_validation[i].nav_after_30d # NULL

\* C28: with the learning cycle run again and again, a row whose horizon has
\* elapsed and whose fund has a NAV dated after the signal date is filled at
\* that horizon in the end, whether the fund had NAV history when the row
\* was registered or not.
C28_EveryRowFilled ==
    \A i \in 1..MaxRows : \A days \in {7, 30} : Due(i, days) ~> Filled(i, days)

\* C28 for the rows registered at a positive NAV
RowsWithNavFilled ==
    \A i \in 1..MaxRows : \A days \in {7, 30} :
        (Due(i, days) /\ signal_validation[i].nav_at_signal > 0) ~> Filled(i, days)

\* C11: every recommended_weight written to strategy_performance lies in
\* [0.1, 1.0] (here in units of 0.0001), whatever the win rate and the
\* average return of the group.
C11_WeightWithinBounds ==
    \A r \in strategy_performance :
        r.recommended_weight >= 1000 /\ r.recommended_weight <= 10000

(***************************************************************************)
(* Properties of the knowledge base                                        *)
(***************************************************************************)

FtsRowids == {e.rowid : e \in knowledge_fts}

ActiveIds == {knowledge_base[i].id : i \in {j \in 1..Len(knowledge_base) :
                                              knowledge_base[j].is_active = 1}}

\* C7: once the full-text table exists, it holds a row with rowid i if and
\* only if knowledge_base holds a row with id i and is_active = 1.
C7_FtsMirrorsActiveRows ==
    fts_created => FtsRowids = ActiveIds

SingleLine(op, c) ==
    /\ op.op = "update"
    /\ \/ op.lessons = <<c>> /\ op.suggestions = <<>>
       \/ op.lessons = <<>> /\ op.suggestions = <<c>>

C8_Step ==
    \A c \in Contents :
        (SingleLine(kb_op', c) /\ Existing(knowledge_base, c) # {}) =>
            /\ Len(knowledge_base') = Len(knowledge_base)
            /\ \A i \in 1..Len(knowledge_base) :
                  knowledge_base'[i] =
                     IF i = FirstOf(Existing(knowledge_base, c))
                     THEN [knowledge_base[i] EXCEPT !.times_validated = @ + 1]
                     ELSE knowledge_base[i]

\* C8: storing one knowledge line (a lesson or a strategy suggestion) whose
\* content equals that of an active row increments that row's
\* times_validated by exactly 1, inserts no row and changes no other row.
C8_ActiveLineIsValidated == [][C8_Step]_vars

(***************************************************************************)
(* Properties of the advisory list                                         *)
(***************************************************************************)

RECURSIVE SumOfBuys(_)
SumOfBuys(recs) ==
    IF recs = <<>> THEN 0
    ELSE (IF Head(recs).action_label = "buy" THEN Head(recs).amount ELSE 0)
         + SumOfBuys(Tail(recs))

\* C9: in the assembled advisory list, on the LLM-enhanced path as on the
\* quant-only path, the buy amounts sum to at most
\* 0.9 * (cash - min_cash_reserve_pct * total_value), taken as 0 when the cash
\* is below the reserve, and every buy amount is at most
\* max_single_position_pct * total_value.
C9_BuysWithinCashAndSingleLimit ==
    rec_pc = "done" =>
        LET e == rec_in.env
            spendable == Max(0, e.cash - MulDiv(e.total_value, min_cash_reserve_pct, 100))
        IN  /\ 10 * SumOfBuys(recommendations) <= 9 * spendable
            /\ \A i \in 1..Len(recommendations) :
                  recommendations[i].action_label = "buy" =>
                     recommendations[i].amount
                        <= MulDiv(e.total_value, max_single_position_pct, 100)

\* C16: generate_recommendation always ends with an advisory report, and
\* it leaves out the full pipeline, ending with the HOLD report, only when
\* there is no fund NAV history.
C16_AlwaysAReport ==
    /\ rec_pc \in {"idle", "hold_report", "done"}
    /\ rec_pc = "hold_report" => rec_in.path = "hold_no_nav"

(***************************************************************************)
(* Properties of the allocation targets                                    *)
\* the cash above the minimum reserve before the first buy of the list
AboveReserve(e) == Max(0, e.cash - MulDiv(e.total_value, min_cash_reserve_pct, 100))

\* the first entry of the quant-only list is the buy sized for the first
\* composite signal, on the account's whole cash
FirstBuySized ==
    /\ rec_pc = "done"
    /\ rec_in.path = "quant"
    /\ is_buy(rec_in.signals[1])
    /\ recommendations # <<>>
    /\ recommendations[1].action_label = "buy"
    /\ recommendations[1].fund_code = rec_in.signals[1].fund_code

\* C25: the amount calculate_position_size returns is at most
\* max(0, current_cash - min_cash_reserve_pct * total_capital), whatever the
\* regime, the confidence, the valuation multiplier and the correlation
\* penalty: buying it leaves the reserve in cash.
C25_SizedWithinReserve ==
    FirstBuySized => recommendations[1].amount <= AboveReserve(rec_in.env)

(***************************************************************************)

RunIds == 1..Len(fuse_runs)

\* what the strategy's task hands back for the fund: nothing
Silent(s, fund_code) ==
    \A i \in 1..Len(_run_strategy(fuse_in.outcomes[s]).signals) :
        _run_strategy(fuse_in.outcomes[s]).signals[i].fund_code # fund_code

\* the result of a run had the strategy not been part of it
WithoutStrategy(run, s) ==
    apply_signal_guard(
        Fused(SelectSeq(run.order, LAMBDA x : x # s), fuse_in.outcomes, fuse_in.weights),
        signal_validation, today)

\* confidences of the composite signals of the fund in a list
ConfidencesOf(signals, fund_code) ==
    { signals[i].confidence : i \in { j \in 1..Len(signals) : signals[j].fund_code = fund_code } }

HasLine(sig, tag) == \E i \in 1..Len(sig.reason) : sig.reason[i].tag = tag

\* C12: every composite signal a run returns has a confidence in [0, 0.95],
\* dampened by a conflict and penalised by the guard or not; and a strategy
\* that emits nothing for a fund never raises the fund's composite
\* confidence: the fund's signal has the confidence it has in a run without
\* that strategy.
C12_ConfidenceBounded ==
    \A r \in RunIds :
        /\ \A i \in 1..Len(fuse_runs[r].signals) :
              /\ fuse_runs[r].signals[i].confidence >= 0
              /\ fuse_runs[r].signals[i].confidence <= 95
        /\ \A s \in Strategies, f \in {"110020", "161725"} :
              (~fuse_runs[r].raised /\ Silent(s, f))
              => \A c \in ConfidencesOf(fuse_runs[r].signals, f) :
                    \E d \in ConfidencesOf(WithoutStrategy(fuse_runs[r], s), f) : c <= d

\* a run returned a dampened, penalised signal of a fund one strategy was
\* silent on
C12_Witness ==
    \E r \in RunIds : \E i \in 1..Len(fuse_runs[r].signals) :
        /\ HasLine(fuse_runs[r].signals[i], "conflict")
        /\ HasLine(fuse_runs[r].signals[i], "signal_guard")
        /\ fuse_runs[r].signals[i].confidence > 0
        /\ \E s \in Strategies :
              /\ fuse_in.outcomes[s] = Returns(<<>>)
              /\ Silent(s, fuse_runs[r].signals[i].fund_code)

\* C13: two runs of generate_composite_signals on the same store and the
\* same inputs return the same list: same signals, same order, same reason
\* lines, whatever order the strategy tasks complete in.
C13_RunsIdentical ==
    \A r, q \in RunIds : fuse_runs[r].signals = fuse_runs[q].signals

\* the records check_signal_health reads for the fund, most recent first
HealthRecords(fund_code) ==
    LET all == ByDateDesc(GuardRows(signal_validation, fund_code, today))
    IN  SubSeq(all, 1, Min(Len(all), GuardLimit))

WrongBuy(r) == r.signal_type \in {"strong_buy", "buy"} /\ r.is_correct_30d = Some(0)

\* the records hold n wrong buys in a row, and no more than n
WrongBuyRun(records, n) ==
    /\ \E k \in 1..Len(records) :
          /\ k + n - 1 <= Len(records)
          /\ \A i \in k..(k + n - 1) : WrongBuy(records[i])
    /\ ~\E k \in 1..Len(records) :
          /\ k + n <= Len(records)
          /\ \A i \in k..(k + n) : WrongBuy(records[i])

\* C14: when the last 10 composite records of the past 90 days of a fund
\* hold 5 wrong buys in a row, a run returns no composite signal of the
\* fund; when they hold 3 or 4 in a row, the signal is returned with 0.3
\* times the confidence the fuser gave it.
C14_GuardSuppressesOrPenalises ==
    \A r \in RunIds : \A f \in {"110020", "161725"} :
        LET fused == Fused(fuse_runs[r].order, fuse_in.outcomes, fuse_in.weights)
            records == HealthRecords(f)
        IN  (fuse_in.fund_data /\ ~fuse_runs[r].raised) =>
            /\ WrongBuyRun(records, 5) => ConfidencesOf(fuse_runs[r].signals, f) = {}
            /\ (WrongBuyRun(records, 3) \/ WrongBuyRun(records, 4)) =>
                  ConfidencesOf(fuse_runs[r].signals, f)
                      = { RoundDiv(3 * c, 10) : c \in ConfidencesOf(fused, f) }

\* what a strategy hands in when a failure counts as no signal
AsNoSignal(outcomes) ==
    [s \in Strategies |-> IF outcomes[s].raises THEN Returns(<<>>) ELSE outcomes[s]]

\* C18: a run in which generate_signals of a strategy raises completes and
\* returns the composite of the other strategies' signals, the failed
\* strategy counting as having emitted nothing; the failure does not reach
\* the caller.
C18_StrategyFailureIsNoSignal ==
    \A r \in RunIds :
        /\ ~fuse_runs[r].raised
        /\ fuse_in.fund_data =>
              fuse_runs[r].signals =
                  apply_signal_guard(
                      Fused(fuse_runs[r].order, AsNoSignal(fuse_in.outcomes), fuse_in.weights),
                      signal_validation, today)

\* a run with a failing strategy returned a composite signal
C18_Witness ==
    \E r \in RunIds :
        /\ \E s \in Strategies : fuse_in.outcomes[s] = Raises
        /\ ~fuse_runs[r].raised
        /\ fuse_runs[r].signals # <<>>

\* the signals of a run for the fund, as <<signal_type, confidence>>
SignalsOf(signals, fund_code) ==
    { <<signals[i].signal_type, signals[i].confidence>> :
        i \in { j \in 1..Len(signals) : signals[j].fund_code = fund_code } }

\* C24: with no validation history, A buying and B selling fund 110020 at
\* confidence 0.8 each: under weights 0.5 and 0.5 a run returns no composite
\* for the fund, under weights 0.6 and 0.5 it returns a BUY of confidence 0.09.
C24_ConflictExample ==
    \A r \in RunIds :
        signal_validation = <<>> =>
            /\ fuse_in = ConflictInput(8, 5)
                 => SignalsOf(fuse_runs[r].signals, "110020") = {}
            /\ fuse_in = ConflictInput(8, 6)
                 => SignalsOf(fuse_runs[r].signals, "110020") = {<<"buy", 9>>}

\* the first half of C24 alone
EvenConflictIsDiscarded ==
    \A r \in RunIds :
        (signal_validation = <<>> /\ fuse_in = ConflictInput(8, 5))
        => SignalsOf(fuse_runs[r].signals, "110020") = {}

(***************************************************************************)
(* Properties of the budgeted prompt                                       *)
(***************************************************************************)

\* the estimated tokens the truncation annotation adds
TruncationMargin == estimate_tokens(TruncationMark)

IsPrefix(p, text) == Len(p) <= Len(text) /\ SubSeq(text, 1, Len(p)) = p

\* the part is the content, or a prefix of it followed by the annotation
Represents(part, content) ==
    \/ part = content
    \/ /\ Len(part) >= Len(TruncationMark)
       /\ SubSeq(part, Len(part) - Len(TruncationMark) + 1, Len(part)) = TruncationMark
       /\ IsPrefix(SubSeq(part, 1, Len(part) - Len(TruncationMark)), content)

\* C15: the prompt build_prompt returns is estimated at no more than the
\* budget plus the tokens of one truncation annotation, and every non-empty
\* priority-1 section is in it, in full or as a truncated prefix.
C15_PromptWithinBudget ==
    prompt_out # NULL =>
        /\ estimate_tokens(prompt_out.text) <= prompt_in.max_tokens + TruncationMargin
        /\ \A i \in 1..Len(prompt_in.sections) :
              (prompt_in.sections[i].priority = 1 /\ prompt_in.sections[i].content # <<>>)
              => \E k \in 1..Len(prompt_out.parts) :
                    Represents(prompt_out.parts[k], prompt_in.sections[i].content)

(***************************************************************************)
(* Properties of the strategy registry                                     *)
(***************************************************************************)

\* the class a decoration step was applied to claims a registered name
ClaimsRegisteredName ==
    \E cls \in StrategyClasses :
        /\ cls.id = reg_op'.cls
        /\ cls.has_name
        /\ cls.name \in DOMAIN _REGISTRY

C17_Step ==
    (n_registrations' = n_registrations + 1 /\ ClaimsRegisteredName)
    => (reg_op'.raised = "DuplicateName" /\ _REGISTRY' = _REGISTRY)

\* C17: registering a class under a name that is in the registry fails with
\* DuplicateName and leaves the registry as it was; an entry is never
\* replaced.
C17_DuplicateNameRejected == [][C17_Step]_vars

(***************************************************************************)
(* Properties of the command-line dispatcher                               *)
(***************************************************************************)

\* C19: the process ends with status 0 when a recognized verb completed and
\* with a status other than 0 when the verb is not recognized.
C19_ExitStatus ==
    (cli_pc = "exited" /\ cli_args # <<>>) =>
        /\ (cli_args[1] \in COMMANDS /\ cli_printed # "traceback") => exit_status = Some(0)
        /\ cli_args[1] \notin (COMMANDS \cup HelpVerbs) => exit_status # Some(0)

(***************************************************************************)
(* Properties of the data fallback                                         *)
(***************************************************************************)

\* C20: whatever api_fn and db_fn do, fetch_with_fallback raises only what
\* default_fn raises; it tries live, cache and default in that order and
\* returns the first that yields data, tagged REALTIME for the live value,
\* CACHED for a cached value younger than the ttl and STALE for an older
\* one, DEFAULT for the default.
C20_FallbackOrderAndTags ==
    /\ fb_pc = "raised" => fb_in.default_fn.kind = "raises" /\ fb_tried = <<"api", "db", "default">>
    /\ fb_pc = "returned" =>
          LET r == fb_result[1]
          IN  IF fb_in.api_fn.kind = "returns"
              THEN r = DataResult("live", "REALTIME", "api") /\ fb_tried = <<"api">>
              ELSE IF IsPair(fb_in.db_fn)
              THEN /\ r.data = "cached" /\ r.source = "db" /\ fb_tried = <<"api", "db">>
                   /\ r.quality = IF fb_in.db_fn.value[1].parses
                                     /\ fb_in.db_fn.value[1].age < fb_in.ttl_hours
                                  THEN "CACHED" ELSE "STALE"
              ELSE r = DataResult("neutral", "DEFAULT", "default")
                   /\ fb_tried = <<"api", "db", "default">>

\* api_fn raised and the cache answered with a value exactly as old as the ttl
C20_Witness ==
    /\ fb_pc = "returned"
    /\ fb_in.api_fn = FnRaises
    /\ IsPair(fb_in.db_fn)
    /\ fb_in.db_fn.value[1].parses
    /\ fb_in.db_fn.value[1].age = fb_in.ttl_hours
    /\ fb_result[1].quality = "STALE"

(***************************************************************************)
(* Properties of the daily routine                                         *)
(***************************************************************************)

\* the judged records among those check_signal_health reads, most recent first
JudgedRecords(fund_code) ==
    SelectSeq(HealthRecords(fund_code), LAMBDA r : r.is_correct_30d # NULL)

\* the last five judged records of the fund are wrong buys
LastFiveJudgedWrong(fund_code) ==
    /\ Len(JudgedRecords(fund_code)) >= 5
    /\ \A i \in 1..5 : WrongBuy(JudgedRecords(fund_code)[i])

C21_Step ==
    (daily_pc = "signals" /\ daily_pc' = "done" /\ LastFiveJudgedWrong("110020"))
    => ConfidencesOf(daily_emitted', "110020") = {}

\* C21: in the daily routine a fund whose last five judged composite signals
\* were wrong buys gets no composite signal from the next run, whether or
\* not newer records of the fund wait to be judged.
C21_StreakSuppressedInRoutine == [][C21_Step]_vars

(***************************************************************************)
(* Properties of the knowledge base writes                                 *)
(***************************************************************************)

\* C22: a read of the store never finds a knowledge_base row whose mirror
\* row is missing from knowledge_fts, nor a mirror row without its base row:
\* the two inserts become visible together, whatever other writers do and
\* also when the process stops between them.
C22_MirrorCommittedWithRow == kbw_seen.base = kbw_seen.fts

(***************************************************************************)
(* Properties of the enrichment stage                                      *)
(***************************************************************************)

\* C26: the run does not wait for its enrichment tasks beyond the deadline
\* of 60 seconds: a task that has not finished by then is abandoned and the
\* run goes on to the strategies, also when the task never returns.
C26_EnrichmentDeadline ==
    enrich_pc = "enriching" => enrich_now <= result_timeout

(***************************************************************************)
(* Properties of the trade-entry sessions                                  *)
(***************************************************************************)

Fields == {"fund_code", "action", "amount", "nav", "trade_date", "reason"}

Active(u) == _sessions[u] # NoSession

\* the step is a call of process for the user: the clock stands still and
\* the reply is that of process
Processed(u) ==
    /\ sess_reply'.op = "process"
    /\ sess_reply'.user_id = u
    /\ sess_now' = sess_now

C29_State ==
    /\ \A u \in Users :
          Active(u) =>
              /\ _sessions[u].step \in 0..6
              /\ \A k \in 1..6 : _sessions[u].data[STEPS[k]] # NULL <=> k <= _sessions[u].step
    /\ sess_reply.result = "success" =>
          /\ sess_reply.op = "process"
          /\ sess_reply.data # NULL
          /\ \A f \in Fields : sess_reply.data[1][f] # NULL
    /\ sess_reply.result \in {"success", "cancelled", "expired"} =>
          ~Active(sess_reply.user_id)

C29_Step ==
    \A u \in Users :
        (Processed(u) /\ Active(u)) =>
            /\ sess_reply'.result = "success" => _sessions[u].step = 6
            /\ Active(u)' =>
                  /\ _sessions'[u].step \in {_sessions[u].step, _sessions[u].step + 1}
                  /\ _sessions'[u].step = _sessions[u].step + 1
                        <=> sess_reply'.result \in {"prompt", "confirm"}

\* C29: process answers 'success' only at the confirm step, with all six
\* fields of the trade set, each by an input its step accepted; the step of
\* a session goes up by one with every accepted input and never otherwise;
\* after success, a cancellation or expiry the user has no session.
C29_SessionIsLinear == []C29_State /\ [][C29_Step]_vars

\* a trade confirmed after a rejected input on the way
C29_Witness ==
    /\ sess_reply.result = "success"
    /\ sess_reply.data # NULL
    /\ sess_reply.data[1].action = Some("sell")
    /\ sess_reply.data[1].reason = Some("")

C30_Step ==
    \A u \in Users :
        (Processed(u) /\ Active(u)) =>
            /\ sess_reply'.result = "error" => _sessions'[u] = _sessions[u]
            /\ (Active(u)' /\ _sessions'[u].created_at # _sessions[u].created_at)
                  => sess_reply'.result \in {"prompt", "confirm"}

\* C30: an input its step rejects is answered with an error and leaves the
\* session as it was: same step, same fields, same time of the last accepted
\* input, still active; only an accepted input restarts the timeout.
C30_RejectedInputChangesNothing == [][C30_Step]_vars

\* a rejected input at a later step, some time after the last accepted one
C30_Witness ==
    \E u \in Users :
        /\ Active(u)
        /\ sess_reply.op = "process"
        /\ sess_reply.result = "error"
        /\ _sessions[u].step >= 2
        /\ sess_now > _sessions[u].created_at

====
